---- MODULE Spec2Model ----
(***************************************************************************)
(* Teaching programs of the HPC course: the sieve of Eratosthenes with an  *)
(* OpenMP-parallel marking step (lab01/05/omp-sieve.c), omp-dot,           *)
(* omp-merge-sort, mpi-sum, mpi-lookup and mpi-circles.                    *)
(*                                                                         *)
(* Specifications:                                                         *)
(*   Spec      omp-sieve main() from the allocation of isprime[] on;       *)
(*   LiveSpec  Spec with fair scheduling;                                  *)
(*   SpecCli   omp-sieve main() from the command line on;                  *)
(*   SpecMark  mark() called twice in succession by a driver on an         *)
(*             arbitrary flag array, range and stride;                     *)
(*   SpecDot, SpecSort, SpecSum, SpecLook, SpecCirc  the other programs.   *)
(* The threads of a parallel region interleave at the granularity of their *)
(* shared-memory accesses: the read of isprime[x], the write of            *)
(* isprime[x] and the atomic increment of nmarked are separate steps.      *)
(***************************************************************************)
EXTENDS Integers, Sequences, FiniteSets, TLC

(* ------------------------------ bounds -------------------------------- *)
\* largest n given to main()
MaxN == 26
\* largest team size (OMP_NUM_THREADS)
MaxW == 3
\* largest array length handed to mark() by the driver of SpecMark
MaxLen == 5
\* largest stride handed to mark() by the driver of SpecMark
MaxP == 3
\* largest argc given to main()
MaxArgc == 3
\* omp-dot: largest array length
MaxDotN == 7
\* omp-merge-sort: largest array length
MaxSortN == 130
\* omp-merge-sort: largest array length of which every permutation is an input
MaxPermN == 3
\* mpi-sum: largest array length
MaxSumN == 7
\* mpi-sum, mpi-lookup: largest number of processes
MaxProcs == 3
\* mpi-lookup: largest array length
MaxLookN == 6
\* largest number of circles in the input file of mpi-circles
MaxCircN == 2
\* largest number of points K given to mpi-circles
MaxCircK == 2

\* marker for a byte of malloc'ed memory that has not been written yet
Uninit == -1

VARIABLES
    argc,       \* main: number of command-line words, the program name included
    argv1,      \* main: the long that atol(argv[1]) yields, as 64 bits
    nbits,      \* main: the 64 bits of the long n up to the range check
    n,          \* main: upper bound of the domain (the value of n past the range check)
    W,          \* size of the thread team (omp_get_num_threads())
    pc,         \* position of the sequential (master) control flow
    isprime,    \* the flag array, indices 0..n; << >> when not allocated
    nprimes,    \* main: running count
    i,          \* main: loop variable
    from,       \* mark: parameter
    to,         \* mark: parameter
    p,          \* mark: parameter
    nmarked,    \* mark: shared counter
    ret,        \* value returned by the last completed call of mark
    wpc,        \* per thread: position inside the parallel region
    my_from,    \* per thread: local my_from
    my_to,      \* per thread: local my_to
    x,          \* per thread: loop variable
    visited,    \* history: indices of isprime[] accessed by each thread in the current call
    before,     \* history: isprime[] at the entry of the current call of mark
    rets,       \* history: the values returned by the completed calls of mark
    \* ---- omp-dot ----
    dot_n,          \* main: n, the array length
    dot_max,        \* main: num_threads = omp_get_max_threads()
    dot_team,       \* size of the team of the parallel region (omp_get_num_threads())
    dot_pc,         \* position of the master
    dot_tdone,      \* the threads that have left the parallel region
    partial_result, \* main: partial_result[num_threads]
    dot_i,          \* main: index of the summing loop
    dot_result,     \* main: result
    \* ---- omp-merge-sort ----
    ms_n,           \* main: n, the array length
    ms_threads,     \* size of the team of the parallel region in mergesort
    ms_pc,          \* position of main
    ms_in,          \* history: the array as fill left it
    ms_v,           \* the array a[] of main, v[] of mergesort
    ms_tmp,         \* mergesort: tmp[]
    ms_tasks,       \* the calls of mergesort_rec (tasks), by their path from the first call
    ms_ok,          \* main: ok, the value of check(a, n)
    \* ---- mpi-sum ----
    sum_n,          \* main: n
    comm_sz,        \* main: comm_sz
    master_array,   \* rank 0: master_array[]
    expected,       \* rank 0: expected
    sum_pc,         \* per rank: position in main
    scattered,      \* per rank: the block MPI_Scatter has in flight to it
    recv_array,     \* per rank: recv_array[]
    local_sum,      \* per rank: local_sum
    sum_msgs,       \* the local sums sent to rank 0 and not yet received, by sender
    sum_i,          \* rank 0: i of the receive loop
    sum_s,          \* rank 0: s
    \* ---- mpi-lookup ----
    lk_n,           \* main: n
    lk_sz,          \* main: comm_sz
    lk_v,           \* rank 0: v[]
    lk_pc,          \* per rank: position in main
    lk_scat,        \* per rank: the block MPI_Scatter has in flight to it
    local_v,        \* per rank: local_v[]
    local_nf,       \* per rank: local_nf
    local_result,   \* per rank: local_result[]
    lk_counts,      \* per rank: the local_nf that MPI_Gather has in flight from it
    recvcounts,     \* rank 0: recvcounts[]
    displs,         \* rank 0: displs[]
    lk_nf,          \* rank 0: nf
    lk_parts,       \* per rank: the local_result[] that MPI_Gatherv has in flight from it
    result,         \* rank 0: result[]
    \* ---- mpi-circles ----
    circ_argc,      \* main: argc
    circ_K,         \* main: atoi(argv[1])
    circ_file,      \* the input file argv[2]
    circ_sz,        \* main: comm_sz
    circ_pc,        \* per rank: position in main
    circ_N,         \* per rank: N (Uninit while indeterminate)
    circ_buf,       \* per rank: the arrays x, y, r and their allocated length
    local_k,        \* per rank: local_k
    local_c,        \* per rank: local_c
    circ_c,         \* rank 0: c, in units of 2^22
    circ_bn,        \* per rank: the N that MPI_Bcast has in flight to it
    circ_ba,        \* per rank: the arrays that MPI_Bcast has in flight to it
    circ_red        \* per rank: the word that MPI_Reduce has in flight from it

cliVars == <<argc, argv1, nbits>>

dotVars == <<dot_n, dot_max, dot_team, dot_pc, dot_tdone, partial_result, dot_i, dot_result>>
sortVars == <<ms_n, ms_threads, ms_pc, ms_in, ms_v, ms_tmp, ms_tasks, ms_ok>>
sumVars == <<sum_n, comm_sz, master_array, expected, sum_pc, scattered, recv_array,
             local_sum, sum_msgs, sum_i, sum_s>>

lookVars == <<lk_n, lk_sz, lk_v, lk_pc, lk_scat, local_v, local_nf, local_result, lk_counts,
              recvcounts, displs, lk_nf, lk_parts, result>>

\* the variables of the other programs
circVars == <<circ_argc, circ_K, circ_file, circ_sz, circ_pc, circ_N, circ_buf, local_k,
              local_c, circ_c, circ_bn, circ_ba, circ_red>>

extVars == <<dotVars, sortVars, sumVars, lookVars, circVars>>

\* omp-dot is not running
DotIdle ==
    /\ dot_n = 0 /\ dot_max = 0 /\ dot_team = 0 /\ dot_pc = "off" /\ dot_tdone = {}
    /\ partial_result = << >> /\ dot_i = 0 /\ dot_result = 0

\* omp-merge-sort is not running
SortIdle ==
    /\ ms_n = 0 /\ ms_threads = 0 /\ ms_pc = "off" /\ ms_in = << >> /\ ms_v = << >>
    /\ ms_tmp = << >> /\ ms_tasks = << >> /\ ms_ok = 0

\* mpi-sum is not running
SumIdle ==
    /\ sum_n = 0 /\ comm_sz = 0 /\ master_array = << >> /\ expected = 0 /\ sum_pc = << >>
    /\ scattered = << >> /\ recv_array = << >> /\ local_sum = << >> /\ sum_msgs = << >>
    /\ sum_i = 0 /\ sum_s = 0

\* mpi-lookup is not running
LookIdle ==
    /\ lk_n = 0 /\ lk_sz = 0 /\ lk_v = << >> /\ lk_pc = << >> /\ lk_scat = << >>
    /\ local_v = << >> /\ local_nf = << >> /\ local_result = << >> /\ lk_counts = << >>
    /\ recvcounts = << >> /\ displs = << >> /\ lk_nf = 0 /\ lk_parts = << >>
    /\ result = << >>

CircIdle ==
    /\ circ_argc = 0 /\ circ_K = 0 /\ circ_file = << >> /\ circ_sz = 0
    /\ circ_pc = << >> /\ circ_N = << >> /\ circ_buf = << >>
    /\ local_k = << >> /\ local_c = << >> /\ circ_c = 0
    /\ circ_bn = << >> /\ circ_ba = << >> /\ circ_red = << >>

ExtIdle == DotIdle /\ SortIdle /\ SumIdle /\ LookIdle /\ CircIdle

vars == <<cliVars, extVars, n, W, pc, isprime, nprimes, i, from, to, p, nmarked, ret,
          wpc, my_from, my_to, x, visited, before, rets>>

mainVars == <<n, nprimes, i>>
markArgs == <<from, to, p>>
threadVars == <<wpc, my_from, my_to, x, visited>>

Threads == 0 .. (W - 1)

(* --------------------------- C arithmetic ----------------------------- *)
\* A 64-bit word (long, unsigned long) is kept as four 16-bit limbs, the
\* most significant first; a long and the unsigned long it converts to
\* have the same limbs.
LimbBase == 2 ^ 16

\* the word of an integer 0 <= k < 2^31
FromInt(k) == <<0, 0, k \div LimbBase, k % LimbBase>>

\* the integer of a word below 2^31
ToInt(b) == b[3] * LimbBase + b[4]

\* the word is below 2^31 (as a long and as an unsigned long)
Below31(b) == b[1] = 0 /\ b[2] = 0 /\ b[3] < LimbBase \div 2

\* faulty variant: the comparison is made on signed longs
UGt_Signed(a, b) ==
    IF (a[1] >= LimbBase \div 2) # (b[1] >= LimbBase \div 2)
    THEN b[1] >= LimbBase \div 2
    ELSE \E k \in 1 .. 4 : a[k] > b[k] /\ \A h \in 1 .. (k - 1) : a[h] = b[h]

\* a > b as unsigned long
UGt(a, b) ==
    \E k \in 1 .. 4 : a[k] > b[k] /\ \A h \in 1 .. (k - 1) : a[h] = b[h]

\* faulty variant: the limit is 1ul << 32
ULimit_Shift32 == <<0, 1, 0, 0>>

\* 1ul << 31
ULimit == <<0, 0, LimbBase \div 2, 0>>

\* the initial value of n in main
DefaultN == 1000000

\* C integer division: truncation toward zero
CDiv(a, b) ==
    IF (a >= 0) = (b > 0)
    THEN (IF a >= 0 THEN a ELSE -a) \div (IF b > 0 THEN b ELSE -b)
    ELSE -((IF a >= 0 THEN a ELSE -a) \div (IF b > 0 THEN b ELSE -b))

(* ------------------- mark(): partition of [from, to) ------------------ *)
\* faulty variant: the block length is truncated before it is multiplied
SubFrom_Trunc(f, t, id, nt) == f + CDiv(t - f, nt) * id

\* my_from as first computed: from + ((n * my_id) / num_threads)
SubFrom(f, t, id, nt) == f + CDiv((t - f) * id, nt)

\* faulty variant: the block length is truncated before it is multiplied
SubTo_Trunc(f, t, id, nt) == f + CDiv(t - f, nt) * (id + 1)

\* my_to: from + ((n * (my_id + 1)) / num_threads)
SubTo(f, t, id, nt) == f + CDiv((t - f) * (id + 1), nt)

\* faulty variant: rounds down to the greatest multiple of p that is <= my_from
AlignDown(mf, pp) == CDiv(mf, pp) * pp

\* my_from as realigned: the lowest multiple of p that is >= my_from
AlignUp(mf, pp) == CDiv(mf + pp - 1, pp) * pp

(* ------------------------------ mark() -------------------------------- *)
\* faulty variant: the counter is not reset at the entry of mark
MarkEnter_KeepCount(f, t, pp) ==
    /\ from' = f
    /\ to' = t
    /\ p' = pp
    /\ nmarked' = nmarked
    /\ wpc' = [w \in Threads |-> "start"]
    /\ visited' = [w \in Threads |-> {}]
    /\ before' = isprime
    /\ pc' = "mark"

\* entry of mark(isprime, f, t, pp): nmarked = 0 and the team is forked
MarkEnter(f, t, pp) ==
    /\ from' = f
    /\ to' = t
    /\ p' = pp
    /\ nmarked' = 0
    /\ wpc' = [w \in Threads |-> "start"]
    /\ visited' = [w \in Threads |-> {}]
    /\ before' = isprime
    /\ pc' = "mark"

\* a thread computes its partition and the first multiple of p in it
WStart(w) ==
    /\ pc = "mark"
    /\ wpc[w] = "start"
    /\ my_from' = [my_from EXCEPT ![w] = AlignUp(SubFrom(from, to, w, W), p)]
    /\ my_to' = [my_to EXCEPT ![w] = SubTo(from, to, w, W)]
    /\ x' = [x EXCEPT ![w] = AlignUp(SubFrom(from, to, w, W), p)]
    /\ wpc' = [wpc EXCEPT ![w] = "loop"]
    /\ UNCHANGED <<cliVars, extVars, mainVars, markArgs, W, pc, isprime, nmarked, ret, visited, before, rets>>

\* faulty variant: the increment of nmarked sits outside the if
WTest_CountAll(w) ==
    /\ pc = "mark"
    /\ wpc[w] = "loop"
    /\ IF x[w] < my_to[w]
       THEN /\ visited' = [visited EXCEPT ![w] = @ \cup {x[w]}]
            /\ IF isprime[x[w]] # 0
               THEN wpc' = [wpc EXCEPT ![w] = "write"]
               ELSE wpc' = [wpc EXCEPT ![w] = "inc"]
            /\ x' = x
       ELSE /\ wpc' = [wpc EXCEPT ![w] = "done"]
            /\ UNCHANGED <<x, visited>>
    /\ UNCHANGED <<cliVars, extVars, mainVars, markArgs, W, pc, isprime, nmarked, ret, my_from, my_to, before, rets>>

\* faulty variant: x is not advanced past an index that is already clear
WTest_NoStep(w) ==
    /\ pc = "mark"
    /\ wpc[w] = "loop"
    /\ IF x[w] < my_to[w]
       THEN /\ visited' = [visited EXCEPT ![w] = @ \cup {x[w]}]
            /\ IF isprime[x[w]] # 0
               THEN wpc' = [wpc EXCEPT ![w] = "write"]
               ELSE wpc' = wpc
            /\ x' = x
       ELSE /\ wpc' = [wpc EXCEPT ![w] = "done"]
            /\ UNCHANGED <<x, visited>>
    /\ UNCHANGED <<cliVars, extVars, mainVars, markArgs, W, pc, isprime, nmarked, ret, my_from, my_to, before, rets>>

\* loop test x < my_to and, inside the loop, the read of isprime[x]
WTest(w) ==
    /\ pc = "mark"
    /\ wpc[w] = "loop"
    /\ IF x[w] < my_to[w]
       THEN /\ visited' = [visited EXCEPT ![w] = @ \cup {x[w]}]
            /\ IF isprime[x[w]] # 0
               THEN /\ wpc' = [wpc EXCEPT ![w] = "write"]
                    /\ x' = x
               ELSE /\ wpc' = wpc
                    /\ x' = [x EXCEPT ![w] = @ + p]
       ELSE /\ wpc' = [wpc EXCEPT ![w] = "done"]
            /\ UNCHANGED <<x, visited>>
    /\ UNCHANGED <<cliVars, extVars, mainVars, markArgs, W, pc, isprime, nmarked, ret, my_from, my_to, before, rets>>

\* isprime[x] = 0
WWrite(w) ==
    /\ pc = "mark"
    /\ wpc[w] = "write"
    /\ isprime' = [isprime EXCEPT ![x[w]] = 0]
    /\ wpc' = [wpc EXCEPT ![w] = "inc"]
    /\ UNCHANGED <<cliVars, extVars, mainVars, markArgs, W, pc, nmarked, ret, my_from, my_to, x, visited, before, rets>>

\* the atomic nmarked++, then x += p
WInc(w) ==
    /\ pc = "mark"
    /\ wpc[w] = "inc"
    /\ nmarked' = nmarked + 1
    /\ x' = [x EXCEPT ![w] = @ + p]
    /\ wpc' = [wpc EXCEPT ![w] = "loop"]
    /\ UNCHANGED <<cliVars, extVars, mainVars, markArgs, W, pc, isprime, ret, my_from, my_to, visited, before, rets>>

\* faulty variant: no barrier, the master returns as soon as one thread is through
Joined_Any == \E w \in Threads : wpc[w] = "done"

\* the team has reached the end of the parallel region
Joined == \A w \in Threads : wpc[w] = "done"

\* implicit barrier at the end of the parallel region, then return nmarked
MarkReturn ==
    /\ pc = "mark"
    /\ Joined
    /\ ret' = nmarked
    /\ rets' = Append(rets, nmarked)
    /\ pc' = "returned"
    /\ UNCHANGED <<cliVars, extVars, mainVars, markArgs, W, isprime, nmarked, threadVars, before>>

Worker == \E w \in Threads : WStart(w) \/ WTest(w) \/ WWrite(w) \/ WInc(w)

(* ------------------ the program with a team of one ------------------- *)
\* mark() run by a single thread: the flags after the call and the value returned
MarkOne(flags, f, t, pp) ==
    LET start == AlignUp(SubFrom(f, t, 0, 1), pp)
        xs == {k \in start .. (SubTo(f, t, 0, 1) - 1) : (k - start) % pp = 0}
    IN  [flags |-> [k \in DOMAIN flags |-> IF k \in xs THEN 0 ELSE flags[k]],
         count |-> Cardinality({k \in xs : flags[k] # 0})]

RECURSIVE LoopOne(_, _, _, _)
\* the main iteration of the sieve from i = ii on, with a team of one thread
LoopOne(flags, cnt, ii, m) ==
    IF ii * ii <= m
    THEN IF flags[ii] # 0
         THEN LET r == MarkOne(flags, ii * ii, m + 1, ii)
              IN  LoopOne(r.flags, cnt - r.count, ii + 1, m)
         ELSE LoopOne(flags, cnt, ii + 1, m)
    ELSE cnt

\* the count main() prints for n = m with OMP_NUM_THREADS=1
SieveOne(m) == LoopOne([k \in 0 .. m |-> 1], m - 1, 2, m)

(* ------------- mark with private counts (specification) -------------- *)
RECURSIVE PrivateLoop(_, _, _, _, _)
\* one worker of the variant with private counts: from xx on, while
\* xx < subTo, a flag that is set is cleared and the worker's own count
\* is incremented
PrivateLoop(flags, xx, subTo, pp, cnt) ==
    IF xx < subTo
    THEN IF flags[xx] # 0
         THEN PrivateLoop([flags EXCEPT ![xx] = 0], xx + pp, subTo, pp, cnt + 1)
         ELSE PrivateLoop(flags, xx + pp, subTo, pp, cnt)
    ELSE [flags |-> flags, count |-> cnt]

RECURSIVE PrivateWorkers(_, _, _, _, _, _, _)
\* the workers id .. nt-1 of the variant with private counts, one after
\* the other (they share nothing but the flags), and the sum of their counts
PrivateWorkers(flags, f, t, pp, id, nt, total) ==
    IF id < nt
    THEN LET r == PrivateLoop(flags, AlignUp(SubFrom(f, t, id, nt), pp),
                              SubTo(f, t, id, nt), pp, 0)
         IN  PrivateWorkers(r.flags, f, t, pp, id + 1, nt, total + r.count)
    ELSE [flags |-> flags, count |-> total]

\* mark with per-worker private counts summed after the join: the flags
\* after the call and the value returned
MarkPrivate(flags, f, t, pp, nt) == PrivateWorkers(flags, f, t, pp, 0, nt, 0)

(* ------------------------------ main() -------------------------------- *)
Init ==
    /\ n \in 0 .. MaxN
    /\ argc = 2
    /\ argv1 = FromInt(n)
    /\ nbits = FromInt(n)
    /\ W \in 1 .. MaxW
    /\ pc = "alloc"
    /\ isprime = << >>
    /\ nprimes = 0
    /\ i = 0
    /\ from = 0 /\ to = 0 /\ p = 0
    /\ nmarked = 0
    /\ ret = 0
    /\ wpc = [w \in Threads |-> "idle"]
    /\ my_from = [w \in Threads |-> 0]
    /\ my_to = [w \in Threads |-> 0]
    /\ x = [w \in Threads |-> 0]
    /\ visited = [w \in Threads |-> {}]
    /\ before = << >>
    /\ rets = << >>
    /\ ExtIdle

\* malloc(n+1) succeeds
Alloc ==
    /\ pc = "alloc"
    /\ isprime' = [k \in 0 .. n |-> Uninit]
    /\ i' = 0
    /\ pc' = "init"
    /\ UNCHANGED <<cliVars, extVars, n, W, nprimes, markArgs, nmarked, ret, threadVars, before, rets>>

\* faulty variant: the result of malloc is not checked
AllocFail_NoAssert ==
    /\ pc = "alloc"
    /\ pc' = "init"
    /\ UNCHANGED <<cliVars, extVars, mainVars, W, isprime, markArgs, nmarked, ret, threadVars, before, rets>>

\* malloc(n+1) returns NULL: the assertion aborts the program
AllocFail ==
    /\ pc = "alloc"
    /\ pc' = "aborted"
    /\ UNCHANGED <<cliVars, extVars, mainVars, W, isprime, markArgs, nmarked, ret, threadVars, before, rets>>

\* faulty variant: the flags are initialised to 0
InitFlag_Zero ==
    /\ pc = "init"
    /\ i <= n
    /\ isprime' = [isprime EXCEPT ![i] = 0]
    /\ i' = i + 1
    /\ UNCHANGED <<cliVars, extVars, n, W, pc, nprimes, markArgs, nmarked, ret, threadVars, before, rets>>

\* one iteration of: for (i=0; i<=n; i++) isprime[i] = 1
InitFlag ==
    /\ pc = "init"
    /\ i <= n
    /\ isprime' = [isprime EXCEPT ![i] = 1]
    /\ i' = i + 1
    /\ UNCHANGED <<cliVars, extVars, n, W, pc, nprimes, markArgs, nmarked, ret, threadVars, before, rets>>

\* faulty variant: the count starts at n, the size of {1..n}
InitDone_CountN ==
    /\ pc = "init"
    /\ i > n
    /\ nprimes' = n
    /\ i' = 2
    /\ pc' = "loop"
    /\ UNCHANGED <<cliVars, extVars, n, W, isprime, markArgs, nmarked, ret, threadVars, before, rets>>

\* faulty variant: the initialisation loop stops at i = n (i<n for i<=n)
InitDone_Short ==
    /\ pc = "init"
    /\ i >= n
    /\ nprimes' = n - 1
    /\ i' = 2
    /\ pc' = "loop"
    /\ UNCHANGED <<cliVars, extVars, n, W, isprime, markArgs, nmarked, ret, threadVars, before, rets>>

\* end of the initialisation loop; nprimes = n-1; i = 2
InitDone ==
    /\ pc = "init"
    /\ i > n
    /\ nprimes' = n - 1
    /\ i' = 2
    /\ pc' = "loop"
    /\ UNCHANGED <<cliVars, extVars, n, W, isprime, markArgs, nmarked, ret, threadVars, before, rets>>

\* faulty variant: the upper end of the range is n, not n+1
MainCall_ToN ==
    /\ pc = "loop"
    /\ i * i <= n
    /\ isprime[i] # 0
    /\ MarkEnter(i * i, n, i)
    /\ UNCHANGED <<cliVars, extVars, mainVars, W, isprime, ret, my_from, my_to, x, rets>>

\* i*i <= n and isprime[i]: call mark(isprime, i*i, n+1, i)
MainCall ==
    /\ pc = "loop"
    /\ i * i <= n
    /\ isprime[i] # 0
    /\ MarkEnter(i * i, n + 1, i)
    /\ UNCHANGED <<cliVars, extVars, mainVars, W, isprime, ret, my_from, my_to, x, rets>>

\* i*i <= n and isprime[i] is 0: next i
MainSkip ==
    /\ pc = "loop"
    /\ i * i <= n
    /\ isprime[i] = 0
    /\ i' = i + 1
    /\ UNCHANGED <<cliVars, extVars, n, W, pc, isprime, nprimes, markArgs, nmarked, ret, threadVars, before, rets>>

\* faulty variant: the returned value is added
MainAccum_Plus ==
    /\ pc = "returned"
    /\ nprimes' = nprimes + ret
    /\ i' = i + 1
    /\ pc' = "loop"
    /\ UNCHANGED <<cliVars, extVars, n, W, isprime, markArgs, nmarked, ret, threadVars, before, rets>>

\* nprimes -= (value returned by mark); i++
MainAccum ==
    /\ pc = "returned"
    /\ nprimes' = nprimes - ret
    /\ i' = i + 1
    /\ pc' = "loop"
    /\ UNCHANGED <<cliVars, extVars, n, W, isprime, markArgs, nmarked, ret, threadVars, before, rets>>

\* i*i > n: the loop ends and isprime is freed
MainExit ==
    /\ pc = "loop"
    /\ i * i > n
    /\ isprime' = << >>
    /\ pc' = "print"
    /\ UNCHANGED <<cliVars, extVars, mainVars, W, markArgs, nmarked, ret, threadVars, before, rets>>

\* nprimes and n are read and printed; main returns
MainPrint ==
    /\ pc = "print"
    /\ pc' = "done"
    /\ UNCHANGED <<cliVars, extVars, mainVars, W, isprime, markArgs, nmarked, ret, threadVars,
                   before, rets>>

Next ==
    \/ Alloc
    \/ AllocFail
    \/ InitFlag
    \/ InitDone
    \/ MainCall
    \/ MainSkip
    \/ MainAccum
    \/ MainExit
    \/ MainPrint
    \/ Worker
    \/ MarkReturn

Spec == Init /\ [][Next]_vars

\* the master and the threads of the team keep being scheduled: a step that
\* can be taken is eventually taken
LiveSpec == Spec /\ WF_vars(Next)

(* ---------------- main() from the command line on --------------------- *)
\* the longs that atol(argv[1]) is made to yield: 0..MaxN, the neighbours
\* of 2^31, 2^32, LONG_MAX, -1, -2 and LONG_MIN
CliValues ==
    {FromInt(k) : k \in 0 .. MaxN}
        \cup {FromInt(2147483647), <<0, 0, 32768, 0>>, <<0, 0, 32768, 1>>,
              <<0, 1, 0, 0>>, <<32767, 65535, 65535, 65535>>,
              <<65535, 65535, 65535, 65535>>, <<65535, 65535, 65535, 65534>>,
              <<32768, 0, 0, 0>>}

InitCli ==
    /\ argc \in 1 .. MaxArgc
    /\ argv1 \in CliValues
    /\ nbits = FromInt(DefaultN)
    /\ n = 0
    /\ W \in 1 .. MaxW
    /\ pc = "args"
    /\ isprime = << >>
    /\ nprimes = 0
    /\ i = 0
    /\ from = 0 /\ to = 0 /\ p = 0
    /\ nmarked = 0
    /\ ret = 0
    /\ wpc = [w \in Threads |-> "idle"]
    /\ my_from = [w \in Threads |-> 0]
    /\ my_to = [w \in Threads |-> 0]
    /\ x = [w \in Threads |-> 0]
    /\ visited = [w \in Threads |-> {}]
    /\ before = << >>
    /\ rets = << >>
    /\ ExtIdle

\* faulty variant: one argument too many is let through
CheckArgc_Off ==
    /\ pc = "args"
    /\ pc' = IF argc > 3 THEN "exit_failure" ELSE "parse"
    /\ UNCHANGED <<cliVars, extVars, mainVars, W, isprime, markArgs, nmarked, ret, threadVars, before, rets>>

\* if (argc > 2) return EXIT_FAILURE
CheckArgc ==
    /\ pc = "args"
    /\ pc' = IF argc > 2 THEN "exit_failure" ELSE "parse"
    /\ UNCHANGED <<cliVars, extVars, mainVars, W, isprime, markArgs, nmarked, ret, threadVars, before, rets>>

\* if (argc == 2) n = atol(argv[1])
ParseArg ==
    /\ pc = "parse"
    /\ nbits' = IF argc = 2 THEN argv1 ELSE nbits
    /\ pc' = "range"
    /\ UNCHANGED <<argc, argv1, extVars, mainVars, W, isprime, markArgs, nmarked, ret, threadVars, before, rets>>

\* if (n > (1ul << 31)) return EXIT_FAILURE; the comparison converts n to
\* unsigned long. An n that passes goes on to malloc(n+1); the model
\* follows it there for n <= MaxN only.
CheckRange ==
    /\ pc = "range"
    /\ IF UGt(nbits, ULimit)
       THEN pc' = "exit_failure" /\ n' = n
       ELSE IF Below31(nbits) /\ ToInt(nbits) <= MaxN
            THEN pc' = "alloc" /\ n' = ToInt(nbits)
            ELSE pc' = "beyond" /\ n' = n
    /\ UNCHANGED <<cliVars, extVars, nprimes, i, W, isprime, markArgs, nmarked, ret, threadVars, before, rets>>

NextCli ==
    \/ CheckArgc
    \/ ParseArg
    \/ CheckRange
    \/ Next

SpecCli == InitCli /\ [][NextCli]_vars

(* ------------- driver: mark() twice on an arbitrary array ------------- *)
\* The driver hands mark() any from and to within 0..len, to < from included.
InitMark ==
    /\ n \in -1 .. (MaxLen - 1)
    /\ W \in 1 .. MaxW
    /\ argc = 1
    /\ argv1 = FromInt(0)
    /\ nbits = FromInt(0)
    /\ pc = "test"
    /\ isprime \in [0 .. n -> {0, 1}]
    /\ nprimes = 0
    /\ i = 0
    /\ from \in 0 .. (n + 1)
    /\ to \in 0 .. (n + 1)
    /\ p \in 1 .. MaxP
    /\ nmarked = 0
    /\ ret = 0
    /\ wpc = [w \in Threads |-> "idle"]
    /\ my_from = [w \in Threads |-> 0]
    /\ my_to = [w \in Threads |-> 0]
    /\ x = [w \in Threads |-> 0]
    /\ visited = [w \in Threads |-> {}]
    /\ before = << >>
    /\ rets = << >>
    /\ ExtIdle

\* the driver calls mark(isprime, from, to, p)
TestCall ==
    /\ pc = "test"
    /\ Len(rets) < 2
    /\ MarkEnter(from, to, p)
    /\ UNCHANGED <<cliVars, extVars, mainVars, W, isprime, ret, my_from, my_to, x, rets>>

\* the driver takes the returned value and goes on to its next call
TestReturn ==
    /\ pc = "returned"
    /\ pc' = "test"
    /\ UNCHANGED <<cliVars, extVars, mainVars, W, isprime, markArgs, nmarked, ret, threadVars, before, rets>>

NextMark ==
    \/ TestCall
    \/ TestReturn
    \/ Worker
    \/ MarkReturn

SpecMark == InitMark /\ [][NextMark]_vars

(* ============================== omp-dot =============================== *)
\* the variables of the sieve
sieveVars == <<cliVars, n, W, pc, isprime, nprimes, i, from, to, p, nmarked, ret,
               wpc, my_from, my_to, x, visited, before, rets>>

\* the sieve is not running
SieveIdle ==
    /\ argc = 0 /\ argv1 = FromInt(0) /\ nbits = FromInt(0)
    /\ n = 0 /\ W = 1 /\ pc = "off" /\ isprime = << >> /\ nprimes = 0 /\ i = 0
    /\ from = 0 /\ to = 0 /\ p = 0 /\ nmarked = 0 /\ ret = 0
    /\ wpc = [w \in Threads |-> "idle"]
    /\ my_from = [w \in Threads |-> 0]
    /\ my_to = [w \in Threads |-> 0]
    /\ x = [w \in Threads |-> 0]
    /\ visited = [w \in Threads |-> {}]
    /\ before = << >>
    /\ rets = << >>

\* the values an int that was never written may be read as
GarbageInts == {-1, 0, 1}

\* fill(): v1[k]
V1(k) == <<3, 7, 18>>[(k % 3) + 1]

\* fill(): v2[k]
V2(k) == <<12, 0, -2>>[(k % 3) + 1]

\* faulty variant: the block length is truncated before it is multiplied
DotStart_Trunc(vn, id, tc) == CDiv(vn, tc) * id

\* dot(): my_start = (n * my_id) / thread_count
DotStart(vn, id, tc) == CDiv(vn * id, tc)

\* dot(): my_end = (n * (my_id + 1)) / thread_count
DotEnd(vn, id, tc) == CDiv(vn * (id + 1), tc)

RECURSIVE DotLoop(_, _, _)
\* dot(): the loop from i = k on, result = acc
DotLoop(k, end, acc) ==
    IF k < end THEN DotLoop(k + 1, end, acc + V1(k) * V2(k)) ELSE acc

\* dot(v1, v2, n) as thread id of a team of tc threads returns it
Dot(vn, id, tc) == DotLoop(DotStart(vn, id, tc), DotEnd(vn, id, tc), 0)

\* main: expect
DotExpect(vn) == IF vn % 3 = 0 THEN 0 ELSE 36

\* main after fill(): partial_result[num_threads] is declared, result = 0,
\* the parallel region starts. The team has at most omp_get_max_threads()
\* threads.
InitDot ==
    /\ dot_n \in 0 .. MaxDotN
    /\ dot_max \in 1 .. MaxW
    /\ dot_team \in 1 .. dot_max
    /\ dot_pc = "parallel"
    /\ dot_tdone = {}
    /\ partial_result = [k \in 0 .. (dot_max - 1) |-> Uninit]
    /\ dot_i = 0
    /\ dot_result = 0
    /\ SieveIdle /\ SortIdle /\ SumIdle /\ LookIdle /\ CircIdle

\* a thread of the team: partial_result[my_id] = dot(v1, v2, n)
DotThread ==
    /\ dot_pc = "parallel"
    /\ \E id \in (0 .. (dot_team - 1)) \ dot_tdone :
          /\ partial_result' = [partial_result EXCEPT ![id] = Dot(dot_n, id, dot_team)]
          /\ dot_tdone' = dot_tdone \cup {id}
    /\ UNCHANGED <<dot_n, dot_max, dot_team, dot_pc, dot_i, dot_result, sieveVars, sortVars, sumVars, lookVars, circVars>>

\* the barrier that ends the parallel region
DotJoin ==
    /\ dot_pc = "parallel"
    /\ dot_tdone = 0 .. (dot_team - 1)
    /\ dot_pc' = "sum"
    /\ dot_i' = 0
    /\ UNCHANGED <<dot_n, dot_max, dot_team, dot_tdone, partial_result, dot_result, sieveVars, sortVars, sumVars, lookVars, circVars>>

\* one iteration of: for (i = 0; i < num_threads; i++) result += partial_result[i]
DotSum ==
    /\ dot_pc = "sum"
    /\ dot_i < dot_max
    /\ \E val \in (IF partial_result[dot_i] = Uninit THEN GarbageInts ELSE {partial_result[dot_i]}) :
          dot_result' = dot_result + val
    /\ dot_i' = dot_i + 1
    /\ UNCHANGED <<dot_n, dot_max, dot_team, dot_pc, dot_tdone, partial_result, sieveVars, sortVars, sumVars, lookVars, circVars>>

\* the loop ends; result is compared with expect
DotCheck ==
    /\ dot_pc = "sum"
    /\ dot_i >= dot_max
    /\ dot_pc' = IF dot_result = DotExpect(dot_n) THEN "test_ok" ELSE "test_failed"
    /\ UNCHANGED <<dot_n, dot_max, dot_team, dot_tdone, partial_result, dot_i, dot_result, sieveVars, sortVars, sumVars, lookVars, circVars>>

NextDot ==
    \/ DotThread
    \/ DotJoin
    \/ DotSum
    \/ DotCheck

SpecDot == InitDot /\ [][NextDot]_vars

(* =========================== omp-merge-sort =========================== *)
\* mergesort_rec: CUTOFF
CUTOFF == 64

\* swap(&v[a], &v[b])
Swap(v, a, b) == [v EXCEPT ![a] = v[b], ![b] = v[a]]

\* selectionsort: one iteration of the inner loop, for i = a and j = b
SelStep(v, a, b) == IF v[a] > v[b] THEN Swap(v, a, b) ELSE v

RECURSIVE SelInner(_, _, _, _)
\* selectionsort: the iterations j = lo .. hi of the inner loop for i = a, in
\* order (the range is halved so that the evaluation stays shallow, and the
\* first half is computed before the second one starts from it)
SelInner(v, a, lo, hi) ==
    IF lo > hi THEN v
    ELSE IF lo = hi THEN SelStep(v, a, lo)
    ELSE LET m == (lo + hi) \div 2
             w == SelInner(v, a, lo, m)
         IN  IF w = w THEN SelInner(w, a, m + 1, hi) ELSE w

RECURSIVE SelOuter(_, _, _, _)
\* selectionsort: the iterations i = lo .. hi of the outer loop, in order
SelOuter(v, lo, hi, high) ==
    IF lo > hi THEN v
    ELSE IF lo = hi THEN SelInner(v, lo, lo + 1, high)
    ELSE LET m == (lo + hi) \div 2
             w == SelOuter(v, lo, m, high)
         IN  IF w = w THEN SelOuter(w, m + 1, hi, high) ELSE w

\* selectionsort(v, low, high): for (i = low; i < high; i++) ...
SelectionSort(v, low, high) == SelOuter(v, low, high - 1, high)

\* faulty variant: the leftover of the first half is not copied
MergeStep_NoLeft(src, s, k, mid, high) ==
    IF s.i <= mid /\ s.j <= high
    THEN IF src[s.i] <= src[s.j]
         THEN [i |-> s.i + 1, j |-> s.j, dst |-> [s.dst EXCEPT ![k] = src[s.i]]]
         ELSE [i |-> s.i, j |-> s.j + 1, dst |-> [s.dst EXCEPT ![k] = src[s.j]]]
    ELSE IF s.i <= mid
         THEN [i |-> s.i + 1, j |-> s.j, dst |-> s.dst]
         ELSE [i |-> s.i, j |-> s.j + 1, dst |-> [s.dst EXCEPT ![k] = src[s.j]]]

\* merge: the iteration that writes dst[k], from the indices i and j of s.
\* While both halves have elements the smaller head is taken; afterwards
\* the leftover of the first half, then that of the second, is copied.
MergeStep(src, s, k, mid, high) ==
    IF s.i <= mid /\ s.j <= high
    THEN IF src[s.i] <= src[s.j]
         THEN [i |-> s.i + 1, j |-> s.j, dst |-> [s.dst EXCEPT ![k] = src[s.i]]]
         ELSE [i |-> s.i, j |-> s.j + 1, dst |-> [s.dst EXCEPT ![k] = src[s.j]]]
    ELSE IF s.i <= mid
         THEN [i |-> s.i + 1, j |-> s.j, dst |-> [s.dst EXCEPT ![k] = src[s.i]]]
         ELSE [i |-> s.i, j |-> s.j + 1, dst |-> [s.dst EXCEPT ![k] = src[s.j]]]

RECURSIVE MergeLoop(_, _, _, _, _, _)
\* merge: the iterations k = lo .. hi of the three loops, in order
MergeLoop(src, s, lo, hi, mid, high) ==
    IF lo > hi THEN s
    ELSE IF lo = hi THEN MergeStep(src, s, lo, mid, high)
    ELSE LET m == (lo + hi) \div 2
             w == MergeLoop(src, s, lo, m, mid, high)
         IN  IF w = w THEN MergeLoop(src, w, m + 1, hi, mid, high) ELSE w

\* merge(src, low, mid, high, dst): dst afterwards
Merge(src, low, mid, high, dst) ==
    MergeLoop(src, [i |-> low, j |-> mid + 1, dst |-> dst], low, high, mid, high).dst

\* memcpy(v+a, tmp+a, (b-a+1)*sizeof(v[0])): v afterwards
Memcpy(v, src, a, b) == [k \in DOMAIN v |-> IF a <= k /\ k <= b THEN src[k] ELSE v[k]]

\* mergesort_rec: m = (i+j)/2
Mid(a, b) == CDiv(a + b, 2)

RECURSIVE GCD(_, _)
GCD(a, b) == IF b = 0 THEN a ELSE GCD(b, a % b)

\* the permutations of 0..m-1 that fill() is made to leave in a[]: all of
\* them for m <= MaxPermN, and for every m the permutations
\* k -> (a*k + b) mod m with a in {1, 3, 7, m-1} coprime to m and b in {0, 1, m/2}
SortInputs(m) ==
    IF m = 0 THEN {<< >>}
    ELSE {[k \in 0 .. (m - 1) |-> (a * k + b) % m] :
              a \in {c \in {1, 3, 7, m - 1} : c >= 1 /\ GCD(c, m) = 1},
              b \in {0, 1 % m, m \div 2}}
         \cup (IF m <= MaxPermN
                THEN {f \in [0 .. (m - 1) -> 0 .. (m - 1)] :
                          \A a, b \in 0 .. (m - 1) : a # b => f[a] # f[b]}
                ELSE {})

\* the tasks that a thread is executing
MsRunning == {t \in DOMAIN ms_tasks : ms_tasks[t].st \in {"sort", "copy"}}

\* main after fill(a, n), in mergesort(a, n): tmp is allocated and the
\* master of the team is about to call mergesort_rec(v, 0, n-1, tmp)
InitSort ==
    /\ ms_n \in 0 .. MaxSortN
    /\ ms_threads \in 1 .. MaxW
    /\ ms_in \in SortInputs(ms_n)
    /\ ms_v = ms_in
    /\ ms_tmp = [k \in 0 .. (ms_n - 1) |-> Uninit]
    /\ ms_tasks = (<< >> :> [i |-> 0, j |-> ms_n - 1, st |-> "ready"])
    /\ ms_pc = "mergesort"
    /\ ms_ok = 0
    /\ SieveIdle /\ DotIdle /\ SumIdle /\ LookIdle /\ CircIdle

\* a thread starts a call of mergesort_rec(v, i, j, tmp): below the cutoff
\* it enters selectionsort; otherwise it creates the two tasks and
\* suspends at the taskwait
MsStart ==
    /\ ms_pc = "mergesort"
    /\ Cardinality(MsRunning) < ms_threads
    /\ \E t \in DOMAIN ms_tasks :
          /\ ms_tasks[t].st = "ready"
          /\ LET a == ms_tasks[t].i
                 b == ms_tasks[t].j
             IN  IF b - a + 1 < CUTOFF
                 THEN ms_tasks' = [ms_tasks EXCEPT ![t].st = "sort"]
                 ELSE ms_tasks' =
                        (Append(t, 0) :> [i |-> a, j |-> Mid(a, b), st |-> "ready"])
                        @@ (Append(t, 1) :> [i |-> Mid(a, b) + 1, j |-> b, st |-> "ready"])
                        @@ [ms_tasks EXCEPT ![t].st = "wait"]
    /\ UNCHANGED <<ms_n, ms_threads, ms_pc, ms_in, ms_v, ms_tmp, ms_ok, sieveVars, dotVars, sumVars, lookVars, circVars>>

\* selectionsort(v, i, j) of a call below the cutoff completes
MsSort ==
    /\ ms_pc = "mergesort"
    /\ \E t \in DOMAIN ms_tasks :
          /\ ms_tasks[t].st = "sort"
          /\ ms_v' = SelectionSort(ms_v, ms_tasks[t].i, ms_tasks[t].j)
          /\ ms_tasks' = [ms_tasks EXCEPT ![t].st = "done"]
    /\ UNCHANGED <<ms_n, ms_threads, ms_pc, ms_in, ms_tmp, ms_ok, sieveVars, dotVars, sumVars, lookVars, circVars>>

\* faulty variant: the taskwait waits for the first child only
ChildrenDone_First(t) ==
    ms_tasks[Append(t, 0)].st = "done"

\* both child tasks are complete
ChildrenDone(t) ==
    /\ ms_tasks[Append(t, 0)].st = "done"
    /\ ms_tasks[Append(t, 1)].st = "done"

\* the taskwait is passed: merge(v, i, m, j, tmp)
MsMerge ==
    /\ ms_pc = "mergesort"
    /\ Cardinality(MsRunning) < ms_threads
    /\ \E t \in DOMAIN ms_tasks :
          /\ ms_tasks[t].st = "wait"
          /\ ChildrenDone(t)
          /\ ms_tmp' = Merge(ms_v, ms_tasks[t].i, Mid(ms_tasks[t].i, ms_tasks[t].j),
                             ms_tasks[t].j, ms_tmp)
          /\ ms_tasks' = [ms_tasks EXCEPT ![t].st = "copy"]
    /\ UNCHANGED <<ms_n, ms_threads, ms_pc, ms_in, ms_v, ms_ok, sieveVars, dotVars, sumVars, lookVars, circVars>>

\* memcpy(v+i, tmp+i, ...) and the call returns
MsCopy ==
    /\ ms_pc = "mergesort"
    /\ \E t \in DOMAIN ms_tasks :
          /\ ms_tasks[t].st = "copy"
          /\ ms_v' = Memcpy(ms_v, ms_tmp, ms_tasks[t].i, ms_tasks[t].j)
          /\ ms_tasks' = [ms_tasks EXCEPT ![t].st = "done"]
    /\ UNCHANGED <<ms_n, ms_threads, ms_pc, ms_in, ms_tmp, ms_ok, sieveVars, dotVars, sumVars, lookVars, circVars>>

\* the first call has returned: the parallel region ends, tmp is freed and
\* mergesort returns
MsReturn ==
    /\ ms_pc = "mergesort"
    /\ ms_tasks[<< >>].st = "done"
    /\ ms_tmp' = << >>
    /\ ms_pc' = "check"
    /\ UNCHANGED <<ms_n, ms_threads, ms_in, ms_v, ms_tasks, ms_ok, sieveVars, dotVars, sumVars, lookVars, circVars>>

\* ok = check(a, n)
MsCheck ==
    /\ ms_pc = "check"
    /\ ms_ok' = IF \A k \in 0 .. (ms_n - 1) : ms_v[k] = k THEN 1 ELSE 0
    /\ ms_pc' = "done"
    /\ UNCHANGED <<ms_n, ms_threads, ms_in, ms_v, ms_tmp, ms_tasks, sieveVars, dotVars, sumVars, lookVars, circVars>>

NextSort ==
    \/ MsStart
    \/ MsSort
    \/ MsMerge
    \/ MsCopy
    \/ MsReturn
    \/ MsCheck

SpecSort == InitSort /\ [][NextSort]_vars

(* ============================== mpi-sum ============================== *)
\* fill: vals[] and NVALS
Vals == <<1, -1, 2, -2, 0>>
NVALS == Len(Vals)

\* fill(v, m): the contents of v afterwards (v[k] = vals[k % NVALS])
FillArray(m) == [k \in 0 .. (m - 1) |-> Vals[(k % NVALS) + 1]]

\* fill(v, m): the value returned by the switch on i % NVALS, with i = m
FillReturn(m) ==
    CASE m % NVALS = 1 -> 1
      [] m % NVALS = 3 -> 2
      [] OTHER -> 0

RECURSIVE Sum(_, _)
\* sum(v, m): v[0] + ... + v[m-1] (the values are small integers, which
\* float addition adds exactly)
Sum(v, m) == IF m <= 0 THEN 0 ELSE Sum(v, m - 1) + v[m - 1]

Ranks == 0 .. (comm_sz - 1)

\* the count passed to MPI_Scatter, malloc and sum: n / comm_sz
SumCount == CDiv(sum_n, comm_sz)

\* the block that MPI_Scatter delivers to rank r
SumBlock(r) == [k \in 0 .. (SumCount - 1) |-> master_array[r * SumCount + k]]

\* main after MPI_Init, MPI_Comm_rank, MPI_Comm_size and the parsing of
\* argv[1], in every process
InitSum ==
    /\ sum_n \in 0 .. MaxSumN
    /\ comm_sz \in 1 .. MaxProcs
    /\ master_array = << >>
    /\ expected = Uninit
    /\ sum_pc = [r \in Ranks |-> IF r = 0 THEN "fill" ELSE "scatter"]
    /\ scattered = [r \in Ranks |-> << >>]
    /\ recv_array = [r \in Ranks |-> [k \in 0 .. (SumCount - 1) |-> Uninit]]
    /\ local_sum = [r \in Ranks |-> 0]
    /\ sum_msgs = {}
    /\ sum_i = 0
    /\ sum_s = 0
    /\ SieveIdle /\ DotIdle /\ SortIdle /\ LookIdle /\ CircIdle

\* the master allocates master_array and fills it
SumFill ==
    /\ sum_pc[0] = "fill"
    /\ master_array' = FillArray(sum_n)
    /\ expected' = FillReturn(sum_n)
    /\ sum_pc' = [sum_pc EXCEPT ![0] = "scatter"]
    /\ UNCHANGED <<sum_n, comm_sz, scattered, recv_array, local_sum, sum_msgs, sum_i, sum_s,
                   sieveVars, dotVars, sortVars, lookVars, circVars>>

\* MPI_Scatter at the root: one block of n / comm_sz elements for each
\* rank, its own block copied to recv_array
SumScatterRoot ==
    /\ sum_pc[0] = "scatter"
    /\ scattered' = [r \in Ranks |-> IF r = 0 THEN << >> ELSE <<SumBlock(r)>>]
    /\ recv_array' = [recv_array EXCEPT ![0] = SumBlock(0)]
    /\ sum_pc' = [sum_pc EXCEPT ![0] = "sum"]
    /\ UNCHANGED <<sum_n, comm_sz, master_array, expected, local_sum, sum_msgs, sum_i, sum_s,
                   sieveVars, dotVars, sortVars, lookVars, circVars>>

\* MPI_Scatter at another rank: its block arrives in recv_array
SumScatterRecv(r) ==
    /\ r # 0
    /\ sum_pc[r] = "scatter"
    /\ scattered[r] # << >>
    /\ recv_array' = [recv_array EXCEPT ![r] = Head(scattered[r])]
    /\ scattered' = [scattered EXCEPT ![r] = << >>]
    /\ sum_pc' = [sum_pc EXCEPT ![r] = "send"]
    /\ UNCHANGED <<sum_n, comm_sz, master_array, expected, local_sum, sum_msgs, sum_i, sum_s,
                   sieveVars, dotVars, sortVars, lookVars, circVars>>

\* a rank other than the master: local_sum = sum(recv_array, n / comm_sz)
\* and MPI_Send of it to rank 0
SumSend(r) ==
    /\ r # 0
    /\ sum_pc[r] = "send"
    /\ local_sum' = [local_sum EXCEPT ![r] = Sum(recv_array[r], SumCount)]
    /\ sum_msgs' = sum_msgs \cup {[src |-> r, val |-> Sum(recv_array[r], SumCount)]}
    /\ sum_pc' = [sum_pc EXCEPT ![r] = "end"]
    /\ UNCHANGED <<sum_n, comm_sz, master_array, expected, scattered, recv_array, sum_i, sum_s,
                   sieveVars, dotVars, sortVars, lookVars, circVars>>

\* the master: local_sum = sum(recv_array, n / comm_sz); s = local_sum; i = 1
SumLocal ==
    /\ sum_pc[0] = "sum"
    /\ local_sum' = [local_sum EXCEPT ![0] = Sum(recv_array[0], SumCount)]
    /\ sum_s' = Sum(recv_array[0], SumCount)
    /\ sum_i' = 1
    /\ sum_pc' = [sum_pc EXCEPT ![0] = "recv"]
    /\ UNCHANGED <<sum_n, comm_sz, master_array, expected, scattered, recv_array, sum_msgs,
                   sieveVars, dotVars, sortVars, lookVars, circVars>>

\* the master: one iteration of the loop, MPI_Recv from MPI_ANY_SOURCE
\* and s += tmp
SumRecv ==
    /\ sum_pc[0] = "recv"
    /\ sum_i < comm_sz
    /\ \E msg \in sum_msgs :
          /\ sum_s' = sum_s + msg.val
          /\ sum_msgs' = sum_msgs \ {msg}
    /\ sum_i' = sum_i + 1
    /\ UNCHANGED <<sum_n, comm_sz, master_array, expected, sum_pc, scattered, recv_array,
                   local_sum, sieveVars, dotVars, sortVars, lookVars, circVars>>

\* the master: the loop ends, s is compared with expected and the verdict
\* is printed (the contents of master_array are kept for reference)
SumCheck ==
    /\ sum_pc[0] = "recv"
    /\ sum_i >= comm_sz
    /\ sum_pc' = [sum_pc EXCEPT ![0] = IF sum_s = expected THEN "test_ok" ELSE "test_failed"]
    /\ UNCHANGED <<sum_n, comm_sz, master_array, expected, scattered, recv_array, local_sum,
                   sum_msgs, sum_i, sum_s, sieveVars, dotVars, sortVars, lookVars, circVars>>

NextSum ==
    \/ SumFill
    \/ SumScatterRoot
    \/ \E r \in Ranks : SumScatterRecv(r)
    \/ \E r \in Ranks : SumSend(r)
    \/ SumLocal
    \/ SumRecv
    \/ SumCheck

SpecSum == InitSum /\ [][NextSum]_vars

(* ============================= mpi-lookup ============================= *)
\* main: KEY
KEY == 42

\* fill: the values rand() % 100 is made to yield (the key and another one)
LookVals == {7, KEY}

LkRanks == 0 .. (lk_sz - 1)

\* main: local_size = n / comm_sz
LkSize == CDiv(lk_n, lk_sz)

\* faulty variant: positions local to the block
LkOffset_Local(r) == 0

\* main: offset = my_rank * local_size
LkOffset(r) == r * LkSize

\* the block that MPI_Scatter delivers to rank r
LkBlock(r) == [k \in 0 .. (LkSize - 1) |-> lk_v[r * LkSize + k]]

RECURSIVE LkCountLoop(_, _, _)
\* main, step 2: the loop from i = k on, with local_nf = c so far
LkCountLoop(lv, k, c) ==
    IF k < LkSize
    THEN LkCountLoop(lv, k + 1, IF lv[k] = KEY THEN c + 1 ELSE c)
    ELSE c

RECURSIVE LkFillLoop(_, _, _, _, _, _)
\* main, step 3: the loop from i = k on, with j and local_result[] = res so far
LkFillLoop(lv, k, j, nfl, off, res) ==
    IF j < nfl /\ k < LkSize
    THEN IF lv[k] = KEY
         THEN LkFillLoop(lv, k + 1, j + 1, nfl, off, [res EXCEPT ![j] = k + off])
         ELSE LkFillLoop(lv, k + 1, j, nfl, off, res)
    ELSE res

\* exclusive_scan(x, s, n) with x = cnt and n = m: s[] afterwards
ExclusiveScan(cnt, m) ==
    LET s[k \in 0 .. (m - 1)] == IF k = 0 THEN 0 ELSE s[k - 1] + cnt[k - 1]
    IN  s

RECURSIVE LkTotal(_, _)
\* main, step 5: nf after the iterations i = 0 .. m-1 of nf += recvcounts[i]
LkTotal(cnt, m) == IF m <= 0 THEN 0 ELSE LkTotal(cnt, m - 1) + cnt[m - 1]

\* MPI_Gatherv at the root: recvbuf afterwards, the recvcounts[r] elements
\* of rank r stored from displs[r] on
Gatherv(buf, parts, counts, dis) ==
    [k \in DOMAIN buf |->
        IF \E r \in DOMAIN parts : dis[r] <= k /\ k < dis[r] + counts[r]
        THEN LET r == CHOOSE q \in DOMAIN parts : dis[q] <= k /\ k < dis[q] + counts[q]
             IN  parts[r][k - dis[r]]
        ELSE buf[k]]

\* main after MPI_Init, MPI_Comm_rank, MPI_Comm_size and the parsing of
\* argv[1], in every process
InitLook ==
    /\ lk_n \in 0 .. MaxLookN
    /\ lk_sz \in 1 .. MaxProcs
    /\ lk_v = << >>
    /\ lk_pc = [r \in LkRanks |-> IF r = 0 THEN "start" ELSE "scatter"]
    /\ lk_scat = [r \in LkRanks |-> << >>]
    /\ local_v = [r \in LkRanks |-> [k \in 0 .. (LkSize - 1) |-> Uninit]]
    /\ local_nf = [r \in LkRanks |-> 0]
    /\ local_result = [r \in LkRanks |-> << >>]
    /\ lk_counts = [r \in LkRanks |-> << >>]
    /\ recvcounts = << >>
    /\ displs = << >>
    /\ lk_nf = 0
    /\ lk_parts = [r \in LkRanks |-> << >>]
    /\ result = << >>
    /\ SieveIdle /\ DotIdle /\ SortIdle /\ SumIdle /\ CircIdle

\* the master finds that n is not a multiple of comm_sz: MPI_Abort
LkAbort ==
    /\ lk_pc[0] = "start"
    /\ lk_n % lk_sz # 0
    /\ lk_pc' = [r \in LkRanks |-> "aborted"]
    /\ UNCHANGED <<lk_n, lk_sz, lk_v, lk_scat, local_v, local_nf, local_result, lk_counts,
                   recvcounts, displs, lk_nf, lk_parts, result,
                   sieveVars, dotVars, sortVars, sumVars, circVars>>

\* the master allocates v[] and fills it
LkFill ==
    /\ lk_pc[0] = "start"
    /\ lk_n % lk_sz = 0
    /\ lk_v' \in [0 .. (lk_n - 1) -> LookVals]
    /\ lk_pc' = [lk_pc EXCEPT ![0] = "scatter"]
    /\ UNCHANGED <<lk_n, lk_sz, lk_scat, local_v, local_nf, local_result, lk_counts,
                   recvcounts, displs, lk_nf, lk_parts, result,
                   sieveVars, dotVars, sortVars, sumVars, circVars>>

\* step 1, MPI_Scatter at the root
LkScatterRoot ==
    /\ lk_pc[0] = "scatter"
    /\ lk_scat' = [r \in LkRanks |-> IF r = 0 THEN << >> ELSE <<LkBlock(r)>>]
    /\ local_v' = [local_v EXCEPT ![0] = LkBlock(0)]
    /\ lk_pc' = [lk_pc EXCEPT ![0] = "count"]
    /\ UNCHANGED <<lk_n, lk_sz, lk_v, local_nf, local_result, lk_counts,
                   recvcounts, displs, lk_nf, lk_parts, result,
                   sieveVars, dotVars, sortVars, sumVars, circVars>>

\* step 1, MPI_Scatter at another rank
LkScatterRecv(r) ==
    /\ r # 0
    /\ lk_pc[r] = "scatter"
    /\ lk_scat[r] # << >>
    /\ local_v' = [local_v EXCEPT ![r] = Head(lk_scat[r])]
    /\ lk_scat' = [lk_scat EXCEPT ![r] = << >>]
    /\ lk_pc' = [lk_pc EXCEPT ![r] = "count"]
    /\ UNCHANGED <<lk_n, lk_sz, lk_v, local_nf, local_result, lk_counts,
                   recvcounts, displs, lk_nf, lk_parts, result,
                   sieveVars, dotVars, sortVars, sumVars, circVars>>

\* steps 2 and 3 in rank r: local_nf is counted, local_result[] is
\* allocated with local_nf elements and filled with the global positions
LkLocal(r) ==
    /\ lk_pc[r] = "count"
    /\ LET c == LkCountLoop(local_v[r], 0, 0)
       IN  /\ local_nf' = [local_nf EXCEPT ![r] = c]
           /\ local_result' = [local_result EXCEPT ![r] =
                  LkFillLoop(local_v[r], 0, 0, c, LkOffset(r),
                             [k \in 0 .. (c - 1) |-> Uninit])]
    /\ lk_pc' = [lk_pc EXCEPT ![r] = "gather"]
    /\ UNCHANGED <<lk_n, lk_sz, lk_v, lk_scat, local_v, lk_counts,
                   recvcounts, displs, lk_nf, lk_parts, result,
                   sieveVars, dotVars, sortVars, sumVars, circVars>>

\* step 4, MPI_Gather at a rank other than the root: local_nf is sent
LkGatherSend(r) ==
    /\ r # 0
    /\ lk_pc[r] = "gather"
    /\ lk_counts' = [lk_counts EXCEPT ![r] = <<local_nf[r]>>]
    /\ lk_pc' = [lk_pc EXCEPT ![r] = "gatherv"]
    /\ UNCHANGED <<lk_n, lk_sz, lk_v, lk_scat, local_v, local_nf, local_result,
                   recvcounts, displs, lk_nf, lk_parts, result,
                   sieveVars, dotVars, sortVars, sumVars, circVars>>

\* step 4 and 5 at the root: MPI_Gather completes once every local_nf has
\* arrived; then exclusive_scan, nf is summed and result[] is allocated
LkGatherRoot ==
    /\ lk_pc[0] = "gather"
    /\ \A r \in LkRanks \ {0} : lk_counts[r] # << >>
    /\ LET rc == [r \in LkRanks |-> IF r = 0 THEN local_nf[0] ELSE Head(lk_counts[r])]
       IN  /\ recvcounts' = rc
           /\ displs' = ExclusiveScan(rc, lk_sz)
           /\ lk_nf' = lk_nf + LkTotal(rc, lk_sz)
           /\ result' = [k \in 0 .. (lk_nf + LkTotal(rc, lk_sz) - 1) |-> Uninit]
    /\ lk_counts' = [r \in LkRanks |-> << >>]
    /\ lk_pc' = [lk_pc EXCEPT ![0] = "gatherv"]
    /\ UNCHANGED <<lk_n, lk_sz, lk_v, lk_scat, local_v, local_nf, local_result, lk_parts,
                   sieveVars, dotVars, sortVars, sumVars, circVars>>

\* step 6, MPI_Gatherv at a rank other than the root: local_result[] is
\* sent; afterwards the rank frees its buffers and finalizes
LkGathervSend(r) ==
    /\ r # 0
    /\ lk_pc[r] = "gatherv"
    /\ lk_parts' = [lk_parts EXCEPT ![r] = <<local_result[r]>>]
    /\ lk_pc' = [lk_pc EXCEPT ![r] = "end"]
    /\ UNCHANGED <<lk_n, lk_sz, lk_v, lk_scat, local_v, local_nf, local_result, lk_counts,
                   recvcounts, displs, lk_nf, result,
                   sieveVars, dotVars, sortVars, sumVars, circVars>>

\* step 6 at the root: MPI_Gatherv completes once every local_result[] has
\* arrived
LkGathervRoot ==
    /\ lk_pc[0] = "gatherv"
    /\ \A r \in LkRanks \ {0} : lk_parts[r] # << >>
    /\ result' = Gatherv(result,
                         [r \in LkRanks |-> IF r = 0 THEN local_result[0]
                                                     ELSE Head(lk_parts[r])],
                         recvcounts, displs)
    /\ lk_parts' = [r \in LkRanks |-> << >>]
    /\ lk_pc' = [lk_pc EXCEPT ![0] = "print"]
    /\ UNCHANGED <<lk_n, lk_sz, lk_v, lk_scat, local_v, local_nf, local_result, lk_counts,
                   recvcounts, displs, lk_nf,
                   sieveVars, dotVars, sortVars, sumVars, circVars>>

\* the root prints the positions; a position where v[] does not hold KEY
\* is fatal (MPI_Abort)
LkPrint ==
    /\ lk_pc[0] = "print"
    /\ lk_pc' = IF \A k \in 0 .. (lk_nf - 1) :
                      result[k] \in DOMAIN lk_v /\ lk_v[result[k]] = KEY
                THEN [lk_pc EXCEPT ![0] = "end"]
                ELSE [r \in LkRanks |-> "aborted"]
    /\ UNCHANGED <<lk_n, lk_sz, lk_v, lk_scat, local_v, local_nf, local_result, lk_counts,
                   recvcounts, displs, lk_nf, lk_parts, result,
                   sieveVars, dotVars, sortVars, sumVars, circVars>>

NextLook ==
    \/ LkAbort
    \/ LkFill
    \/ LkScatterRoot
    \/ \E r \in LkRanks : LkScatterRecv(r)
    \/ \E r \in LkRanks : LkLocal(r)
    \/ \E r \in LkRanks : LkGatherSend(r)
    \/ LkGatherRoot
    \/ \E r \in LkRanks : LkGathervSend(r)
    \/ LkGathervRoot
    \/ LkPrint

SpecLook == InitLook /\ [][NextLook]_vars

(* ============================= mpi-circles ============================ *)
\* sq(): the square of a coordinate
Sq(a) == a * a

\* the circles an input file may hold
Circles == {[x |-> 0, y |-> 0, r |-> 10], [x |-> 50, y |-> 50, r |-> 60]}

\* the points 100.0*rand()/RAND_MAX may yield
Points == {[x |-> 0, y |-> 0], [x |-> 0, y |-> 50], [x |-> 100, y |-> 100]}

\* the input files: one that cannot be opened, one without the number of
\* circles, and for every N the files holding N or fewer circles
CircFiles ==
    {[open |-> FALSE, hdr |-> FALSE, cnt |-> 0, cs |-> << >>],
     [open |-> TRUE, hdr |-> FALSE, cnt |-> 0, cs |-> << >>]}
        \cup {[open |-> TRUE, hdr |-> TRUE, cnt |-> cn, cs |-> cs] :
                  cn \in 0 .. MaxCircN,
                  cs \in UNION {[1 .. m -> Circles] : m \in 0 .. MaxCircN}}

\* the values an int that was never assigned may hold
GarbageN == {-1, 0, 1, MaxCircN}

CircRanks == 0 .. (circ_sz - 1)

\* x = y = r = NULL
CircNull == [cap |-> -1, x |-> << >>, y |-> << >>, r |-> << >>]

\* x, y, r after malloc(m * sizeof(float)) each
CircMalloc(m) ==
    [cap |-> m, x |-> [k \in 1 .. m |-> Uninit], y |-> [k \in 1 .. m |-> Uninit],
     r |-> [k \in 1 .. m |-> Uninit]]

\* inside(): the point lies in one of the first cn circles
InsideOne(xs, ys, rs, cn, pt) ==
    \E k \in 1 .. cn : Sq(pt.x - xs[k]) + Sq(pt.y - ys[k]) <= Sq(rs[k])

\* inside(): the value returned when the generated points are pts
Inside(xs, ys, rs, cn, pts) ==
    Cardinality({np \in 1 .. Len(pts) : InsideOne(xs, ys, rs, cn, pts[np])})

\* the bits of the float k, 0 <= k <= 4, read as an int, in units of 2^22
FloatBits(k) == <<0, 254, 256, 257, 258>>[k + 1]

\* the sum of two ints in units of 2^22, wrapped to 32 bits
AddInt(a, b) == ((a + b + 512) % 1024) - 512

\* MPI_Reduce with MPI_SUM: the sum of the words sent by ranks lo..hi
RECURSIVE ReduceSum(_, _, _)
ReduceSum(words, lo, hi) ==
    IF lo > hi THEN 0 ELSE AddInt(words[lo], ReduceSum(words, lo + 1, hi))

\* MPI_Abort(MPI_COMM_WORLD, EXIT_FAILURE), or a process of the job dies
CircAbort == circ_pc' = [q \in CircRanks |-> "aborted"]

InitCirc ==
    /\ circ_argc \in 2 .. 3
    /\ circ_K \in 0 .. MaxCircK
    /\ circ_file \in CircFiles
    /\ circ_sz \in 1 .. MaxProcs
    /\ circ_pc = [q \in CircRanks |-> "args"]
    /\ circ_N = [q \in CircRanks |-> Uninit]
    /\ circ_buf = [q \in CircRanks |-> CircNull]
    /\ local_k = [q \in CircRanks |-> 0]
    /\ local_c = [q \in CircRanks |-> 0]
    /\ circ_c = 0
    /\ circ_bn = [q \in CircRanks |-> << >>]
    /\ circ_ba = [q \in CircRanks |-> << >>]
    /\ circ_red = [q \in CircRanks |-> << >>]
    /\ SieveIdle /\ DotIdle /\ SortIdle /\ SumIdle /\ LookIdle

\* the usage check of rank 0 and K = atoi(argv[1])
CircArgs(q) ==
    /\ circ_pc[q] = "args"
    /\ IF q = 0 /\ circ_argc # 3
       THEN CircAbort
       ELSE circ_pc' = [circ_pc EXCEPT ![q] = IF q = 0 THEN "read" ELSE "local"]
    /\ UNCHANGED <<circ_argc, circ_K, circ_file, circ_sz, circ_N, circ_buf, local_k, local_c,
                   circ_c, circ_bn, circ_ba, circ_red,
                   sieveVars, dotVars, sortVars, sumVars, lookVars>>

\* rank 0 reads the input file: N, then x[i], y[i], r[i] for i < N
CircRead ==
    /\ circ_pc[0] = "read"
    /\ IF ~circ_file.open \/ ~circ_file.hdr
       THEN CircAbort /\ UNCHANGED <<circ_N, circ_buf>>
       ELSE /\ circ_N' = [circ_N EXCEPT ![0] = circ_file.cnt]
            /\ IF Len(circ_file.cs) < circ_file.cnt
               THEN /\ CircAbort
                    /\ circ_buf' = [circ_buf EXCEPT ![0] =
                          [cap |-> circ_file.cnt,
                           x |-> [k \in 1 .. circ_file.cnt |->
                                    IF k <= Len(circ_file.cs) THEN circ_file.cs[k].x ELSE Uninit],
                           y |-> [k \in 1 .. circ_file.cnt |->
                                    IF k <= Len(circ_file.cs) THEN circ_file.cs[k].y ELSE Uninit],
                           r |-> [k \in 1 .. circ_file.cnt |->
                                    IF k <= Len(circ_file.cs) THEN circ_file.cs[k].r ELSE Uninit]]]
               ELSE /\ circ_pc' = [circ_pc EXCEPT ![0] = "local"]
                    /\ circ_buf' = [circ_buf EXCEPT ![0] =
                          [cap |-> circ_file.cnt,
                           x |-> [k \in 1 .. circ_file.cnt |-> circ_file.cs[k].x],
                           y |-> [k \in 1 .. circ_file.cnt |-> circ_file.cs[k].y],
                           r |-> [k \in 1 .. circ_file.cnt |-> circ_file.cs[k].r]]]
    /\ UNCHANGED <<circ_argc, circ_K, circ_file, circ_sz, local_k, local_c,
                   circ_c, circ_bn, circ_ba, circ_red,
                   sieveVars, dotVars, sortVars, sumVars, lookVars>>

\* local_k = K / comm_sz; rank 0 adds K % comm_sz, every other rank
\* allocates x, y, r with malloc(N * sizeof(float)). Its N has not been
\* assigned: any value g may be read. A negative g converts to a size that
\* malloc refuses, and the assert ends the job.
CircLocal(q) ==
    /\ circ_pc[q] = "local"
    /\ IF q = 0
       THEN /\ local_k' = [local_k EXCEPT ![q] = CDiv(circ_K, circ_sz) + (circ_K % circ_sz)]
            /\ circ_pc' = [circ_pc EXCEPT ![q] = "bcast_n"]
            /\ UNCHANGED circ_buf
       ELSE /\ local_k' = [local_k EXCEPT ![q] = CDiv(circ_K, circ_sz)]
            /\ \E g \in (IF circ_N[q] = Uninit THEN GarbageN ELSE {circ_N[q]}) :
                  IF g < 0
                  THEN CircAbort /\ UNCHANGED circ_buf
                  ELSE /\ circ_buf' = [circ_buf EXCEPT ![q] = CircMalloc(g)]
                       /\ circ_pc' = [circ_pc EXCEPT ![q] = "bcast_n"]
    /\ UNCHANGED <<circ_argc, circ_K, circ_file, circ_sz, circ_N, local_c,
                   circ_c, circ_bn, circ_ba, circ_red,
                   sieveVars, dotVars, sortVars, sumVars, lookVars>>

\* MPI_Bcast(&N, 1, MPI_INT, 0, ...) at rank 0
CircBcastNRoot ==
    /\ circ_pc[0] = "bcast_n"
    /\ circ_bn' = [q \in CircRanks |-> IF q = 0 THEN << >> ELSE <<circ_N[0]>>]
    /\ circ_pc' = [circ_pc EXCEPT ![0] = "bcast_x"]
    /\ UNCHANGED <<circ_argc, circ_K, circ_file, circ_sz, circ_N, circ_buf, local_k, local_c,
                   circ_c, circ_ba, circ_red,
                   sieveVars, dotVars, sortVars, sumVars, lookVars>>

\* MPI_Bcast(&N, 1, MPI_INT, 0, ...) at another rank
CircBcastNRecv(q) ==
    /\ q # 0
    /\ circ_pc[q] = "bcast_n"
    /\ circ_bn[q] # << >>
    /\ circ_N' = [circ_N EXCEPT ![q] = circ_bn[q][1]]
    /\ circ_bn' = [circ_bn EXCEPT ![q] = << >>]
    /\ circ_pc' = [circ_pc EXCEPT ![q] = "bcast_x"]
    /\ UNCHANGED <<circ_argc, circ_K, circ_file, circ_sz, circ_buf, local_k, local_c,
                   circ_c, circ_ba, circ_red,
                   sieveVars, dotVars, sortVars, sumVars, lookVars>>

\* the position in main after the broadcast of an array
CircAfter(f) == CASE f = "x" -> "bcast_y" [] f = "y" -> "bcast_r" [] f = "r" -> "inside"

\* MPI_Bcast(x, N, MPI_FLOAT, 0, ...) at rank 0, and the same for y and r
CircBcastArrRoot(f) ==
    /\ circ_pc[0] = "bcast_" \o f
    /\ circ_ba' = [q \in CircRanks |->
                      IF q = 0 THEN << >> ELSE Append(circ_ba[q], circ_buf[0][f])]
    /\ circ_pc' = [circ_pc EXCEPT ![0] = CircAfter(f)]
    /\ UNCHANGED <<circ_argc, circ_K, circ_file, circ_sz, circ_N, circ_buf, local_k, local_c,
                   circ_c, circ_bn, circ_red,
                   sieveVars, dotVars, sortVars, sumVars, lookVars>>

\* MPI_Bcast(x, N, MPI_FLOAT, 0, ...) at another rank, and the same for y
\* and r: N floats are stored into the array. An array allocated shorter
\* than N is overrun: the process dies, or goes on with the values stored.
CircBcastArrRecv(q, f) ==
    /\ q # 0
    /\ circ_pc[q] = "bcast_" \o f
    /\ circ_ba[q] # << >>
    /\ LET got == Head(circ_ba[q])
           len == IF circ_buf[q].cap > circ_N[q] THEN circ_buf[q].cap ELSE circ_N[q]
           new == [k \in 1 .. len |-> IF k <= circ_N[q] THEN got[k] ELSE circ_buf[q][f][k]]
       IN  \/ /\ circ_buf' = [circ_buf EXCEPT ![q][f] = new]
              /\ circ_ba' = [circ_ba EXCEPT ![q] = Tail(circ_ba[q])]
              /\ circ_pc' = [circ_pc EXCEPT ![q] = CircAfter(f)]
           \/ /\ circ_buf[q].cap < circ_N[q]
              /\ CircAbort
              /\ UNCHANGED <<circ_buf, circ_ba>>
    /\ UNCHANGED <<circ_argc, circ_K, circ_file, circ_sz, circ_N, local_k, local_c,
                   circ_c, circ_bn, circ_red,
                   sieveVars, dotVars, sortVars, sumVars, lookVars>>

\* local_c = inside(x, y, r, N, local_k)
CircInside(q) ==
    /\ circ_pc[q] = "inside"
    /\ \E pts \in [1 .. local_k[q] -> Points] :
          local_c' = [local_c EXCEPT ![q] =
                         Inside(circ_buf[q].x, circ_buf[q].y, circ_buf[q].r, circ_N[q], pts)]
    /\ circ_pc' = [circ_pc EXCEPT ![q] = "reduce"]
    /\ UNCHANGED <<circ_argc, circ_K, circ_file, circ_sz, circ_N, circ_buf, local_k,
                   circ_c, circ_bn, circ_ba, circ_red,
                   sieveVars, dotVars, sortVars, sumVars, lookVars>>

\* MPI_Reduce(&local_c, &c, 1, MPI_INT, MPI_SUM, 0, ...) at a rank other
\* than 0: the float local_c is sent as an int; then free and MPI_Finalize
CircReduceSend(q) ==
    /\ q # 0
    /\ circ_pc[q] = "reduce"
    /\ circ_red' = [circ_red EXCEPT ![q] = <<FloatBits(local_c[q])>>]
    /\ circ_buf' = [circ_buf EXCEPT ![q] = CircNull]
    /\ circ_pc' = [circ_pc EXCEPT ![q] = "done"]
    /\ UNCHANGED <<circ_argc, circ_K, circ_file, circ_sz, circ_N, local_k, local_c,
                   circ_c, circ_bn, circ_ba,
                   sieveVars, dotVars, sortVars, sumVars, lookVars>>

\* MPI_Reduce at rank 0: c is the sum of the words of all ranks
CircReduceRoot ==
    /\ circ_pc[0] = "reduce"
    /\ \A q \in CircRanks \ {0} : circ_red[q] # << >>
    /\ circ_c' = ReduceSum([q \in CircRanks |->
                               IF q = 0 THEN FloatBits(local_c[0]) ELSE circ_red[q][1]],
                           0, circ_sz - 1)
    /\ circ_red' = [q \in CircRanks |-> << >>]
    /\ circ_pc' = [circ_pc EXCEPT ![0] = "print"]
    /\ UNCHANGED <<circ_argc, circ_K, circ_file, circ_sz, circ_N, circ_buf, local_k, local_c,
                   circ_bn, circ_ba,
                   sieveVars, dotVars, sortVars, sumVars, lookVars>>

\* rank 0 prints K, c and the area; then free and MPI_Finalize
CircPrint ==
    /\ circ_pc[0] = "print"
    /\ circ_buf' = [circ_buf EXCEPT ![0] = CircNull]
    /\ circ_pc' = [circ_pc EXCEPT ![0] = "done"]
    /\ UNCHANGED <<circ_argc, circ_K, circ_file, circ_sz, circ_N, local_k, local_c,
                   circ_c, circ_bn, circ_ba, circ_red,
                   sieveVars, dotVars, sortVars, sumVars, lookVars>>

NextCirc ==
    \/ \E q \in CircRanks : CircArgs(q)
    \/ CircRead
    \/ \E q \in CircRanks : CircLocal(q)
    \/ CircBcastNRoot
    \/ \E q \in CircRanks : CircBcastNRecv(q)
    \/ \E f \in {"x", "y", "r"} : CircBcastArrRoot(f)
    \/ \E q \in CircRanks, f \in {"x", "y", "r"} : CircBcastArrRecv(q, f)
    \/ \E q \in CircRanks : CircInside(q)
    \/ \E q \in CircRanks : CircReduceSend(q)
    \/ CircReduceRoot
    \/ CircPrint

SpecCirc == InitCirc /\ [][NextCirc]_vars

(* ----------------------- vocabulary of the claims --------------------- *)
IsPrimeNum(k) == k >= 2 /\ \A d \in 2 .. (k - 1) : k % d # 0

\* the prime-counting function
Pi(m) == Cardinality({k \in 2 .. m : IsPrimeNum(k)})

RECURSIVE SumSeq(_)
SumSeq(s) == IF s = << >> THEN 0 ELSE Head(s) + SumSeq(Tail(s))

\* the sub-range of thread id in the current call of mark
Block(id) == SubFrom(from, to, id, W) .. (SubTo(from, to, id, W) - 1)

\* the multiples of p in [from, to)
Multiples == {k \in from .. (to - 1) : k % p = 0}

\* a thread is inside the parallel region
Active(w) == wpc[w] \in {"start", "loop", "write", "inc"}

(* -------------------------------- C1 ---------------------------------- *)
\* C1: for every n >= 0 and every team size, the count main() ends with
\* equals pi(n), the number of primes in {2..n}.
C1_CountIsPi == pc = "done" => nprimes = Pi(n)

(* -------------------------------- C2 ---------------------------------- *)
\* C2: for a fixed n the final count is the same for every team size and
\* every interleaving of the threads: it is the count of the run with a
\* team of one thread.
C2_WorkerIndependent == pc = "done" => nprimes = SieveOne(n)

C2_Witness == pc = "done" /\ W = 3 /\ n = 26 /\ nprimes = 9

(* -------------------------------- C3 ---------------------------------- *)
\* C3: the W sub-ranges computed in mark are contiguous (my_to of thread id
\* is my_from of thread id+1), pairwise disjoint, and their union is
\* exactly [from, to), whether or not to-from is divisible by W.
C3_Partition ==
    pc = "mark" /\ from <= to =>
        /\ SubFrom(from, to, 0, W) = from
        /\ SubTo(from, to, W - 1, W) = to
        /\ \A id \in 0 .. (W - 2) : SubTo(from, to, id, W) = SubFrom(from, to, id + 1, W)
        /\ \A id \in Threads : SubFrom(from, to, id, W) <= SubTo(from, to, id, W)
        /\ \A a, b \in Threads : a # b => Block(a) \cap Block(b) = {}
        /\ UNION {Block(id) : id \in Threads} = from .. (to - 1)
        /\ \A w \in Threads : wpc[w] # "start" => my_to[w] = SubTo(from, to, w, W)

C3_Witness ==
    /\ pc = "mark"
    /\ from <= to
    /\ W = 3
    /\ (to - from) % W # 0
    /\ to - from > W
    /\ \A w \in Threads : wpc[w] # "start"

(* -------------------------------- C4 ---------------------------------- *)
\* C4: within one call of mark no index of isprime[] is accessed by more
\* than one thread: every index a thread visits lies in that thread's
\* sub-range [subFrom, subTo) and in no other thread's visited set.
C4_DisjointAccess ==
    \A w \in Threads :
        \A k \in visited[w] :
            /\ SubFrom(from, to, w, W) <= k
            /\ k < SubTo(from, to, w, W)
            /\ \A v \in Threads : v # w => k \notin visited[v]

C4_Witness ==
    /\ pc = "mark"
    /\ W >= 2
    /\ Joined
    /\ \E a, b \in Threads : a # b /\ visited[a] # {} /\ visited[b] # {}

(* -------------------------------- C5 ---------------------------------- *)
\* C5: after a call mark(isprime, from, to, p) with 0 <= from <= to <= len
\* and p >= 1 every multiple of p in [from, to) is flagged composite, and
\* the value returned is the number of multiples of p in [from, to) whose
\* flag was set before the call.
C5_MarkResult ==
    pc = "returned" =>
        /\ \A k \in Multiples : isprime[k] = 0
        /\ ret = Cardinality({k \in Multiples : before[k] # 0})

C5_Witness ==
    /\ pc = "returned"
    /\ Len(rets) = 1
    /\ W >= 2
    /\ ret >= 2
    /\ \E k \in Multiples : before[k] = 0
    /\ \E a, b \in Threads : a # b /\ visited[a] # {} /\ visited[b] # {}

(* -------------------------------- C6 ---------------------------------- *)
\* C6: every flag is set when the initialisation ends, and a flag that is
\* clear never becomes set again (so an index goes from set to clear at
\* most once in a run).
C6_FlagsMonotone ==
    /\ [](pc = "loop" /\ rets = << >> => \A k \in 0 .. n : isprime[k] = 1)
    /\ [][\A k \in (DOMAIN isprime) \cap (DOMAIN isprime') :
              isprime[k] = 0 => isprime'[k] = 0]_vars

C6_Witness ==
    /\ pc = "mark"
    /\ Len(rets) = 2
    /\ \E k \in 0 .. n : isprime[k] = 0 /\ before[k] = 1
    /\ \E k \in 0 .. n : before[k] = 0

(* -------------------------------- C7 ---------------------------------- *)
\* C7: a marking round, the join of all its threads included, is over
\* before the controller reads the next flag or starts the next round:
\* whenever the control flow is outside mark no thread is inside a
\* parallel region, and the round that has returned has cleared every
\* multiple it was given.
C7_RoundsOrdered ==
    /\ pc # "mark" => \A w \in Threads : ~Active(w)
    /\ pc \in {"returned", "loop"} /\ rets # << >> => \A k \in Multiples : isprime[k] = 0

C7_Witness ==
    /\ pc = "loop"
    /\ i = 4
    /\ W = 3
    /\ n >= 16
    /\ \A w \in Threads : wpc[w] = "done"

(* -------------------------------- C8 ---------------------------------- *)
\* C8: sieve(n+1) - sieve(n) is 0 or 1: the count of a run for n >= 1
\* exceeds the count for n-1 by 0 or by 1.
C8_StepZeroOrOne == pc = "done" /\ n >= 1 => (nprimes - SieveOne(n - 1)) \in {0, 1}

C8_Witness == pc = "done" /\ n = 23 /\ W = 3 /\ nprimes - SieveOne(22) = 1

(* -------------------------------- C9 ---------------------------------- *)
\* C9: the values returned by mark over all rounds of a run add up to
\* (n-1) minus the final count, and to the number of composites in {2..n}:
\* no composite is counted twice.
C9_NoDoubleCount ==
    pc = "done" =>
        /\ SumSeq(rets) = (n - 1) - nprimes
        /\ SumSeq(rets) = Cardinality({k \in 2 .. n : ~IsPrimeNum(k)})

C9_Witness == pc = "done" /\ n = 25 /\ W = 3 /\ rets = <<11, 3, 1>>

(* -------------------------------- C10 --------------------------------- *)
\* C10: of two calls of mark in succession on the same array, range and
\* stride, the first returns a count >= 0, the second returns 0 and leaves
\* the array as the first call left it.
C10_Idempotent ==
    /\ Len(rets) >= 1 => rets[1] >= 0
    /\ Len(rets) = 2 => rets[2] = 0
    /\ (Len(rets) = 1 /\ pc = "mark") \/ Len(rets) = 2 => isprime = before

C10_Witness ==
    /\ Len(rets) = 2
    /\ rets[1] >= 2
    /\ W >= 2
    /\ \E a, b \in Threads : a # b /\ visited[a] # {} /\ visited[b] # {}

(* -------------------------------- C11 --------------------------------- *)
\* C11: for n = 0 and n = 1 the count main() ends with is 0.
C11_SmallN == pc = "done" /\ n < 2 => nprimes = 0

(* -------------------------------- C15 --------------------------------- *)
\* the long n is greater than 2^31
TooLarge(b) ==
    /\ b[1] < 32768
    /\ \/ b[1] > 0
       \/ b[2] > 0
       \/ b[3] > 32768
       \/ b[3] = 32768 /\ b[4] > 0

\* C15: an n above the maximum is refused: past the range check the program
\* is at its failure exit, no buffer has been allocated and no marking
\* round has run.
C15_TooLargeRefused ==
    argc <= 2 /\ pc \notin {"args", "parse", "range"} /\ TooLarge(nbits) =>
        /\ pc = "exit_failure"
        /\ isprime = << >>
        /\ before = << >>
        /\ rets = << >>
        /\ \A w \in Threads : wpc[w] = "idle"

C15_Witness == pc = "exit_failure" /\ argc = 2 /\ nbits = <<0, 0, 32768, 1>>

(* -------------------------------- C16 --------------------------------- *)
\* C16: with more than one argument the program goes to its failure exit
\* and nothing is parsed, allocated, marked or counted.
C16_UsageError ==
    argc > 2 /\ pc # "args" =>
        /\ pc = "exit_failure"
        /\ nbits = FromInt(DefaultN)
        /\ isprime = << >>
        /\ before = << >>
        /\ rets = << >>
        /\ nprimes = 0
        /\ \A w \in Threads : wpc[w] = "idle"

C16_Witness == pc = "exit_failure" /\ argc = 3 /\ argv1 = FromInt(10)

(* -------------------------------- C12 --------------------------------- *)
\* C12 as stated: when mark is called with to <= from it returns 0 at once
\* and no thread is started for it.
C12_NoSpawn ==
    to <= from =>
        /\ \A w \in Threads : ~Active(w)
        /\ pc = "returned" => ret = 0

\* C12 as amended: when mark is called with to <= from the parallel region
\* is entered, every thread finds its sub-range empty and leaves without
\* an iteration: no flag is read or written and mark returns 0.
C12_EmptyRange ==
    to <= from =>
        /\ \A w \in Threads : visited[w] = {}
        /\ \A w \in Threads : wpc[w] \in {"loop", "done"} => my_from[w] >= my_to[w]
        /\ \A w \in Threads : wpc[w] \notin {"write", "inc"}
        /\ nmarked = 0
        /\ pc \in {"mark", "returned"} => isprime = before
        /\ \A k \in 1 .. Len(rets) : rets[k] = 0
        /\ pc = "returned" => ret = 0

C12_Witness ==
    /\ to < from
    /\ pc = "returned"
    /\ Len(rets) = 1
    /\ W = 3
    /\ p = 1
    /\ \E k \in 0 .. n : isprime[k] = 1

(* -------------------------------- C13 --------------------------------- *)
\* the indices whose flag the current call of mark has cleared
NewlyMarked == {k \in DOMAIN before : before[k] # 0 /\ isprime[k] = 0}

\* C13: for n = 20 and any team size the round of 2 clears exactly
\* 4, 6, ..., 20 and returns 9, the round of 3 clears exactly 9 and 15 and
\* returns 2, mark is not called for 4, the loop ends at i = 5, and the
\* count is 8 with exactly 2, 3, 5, 7, 11, 13, 17, 19 still flagged.
C13_Walkthrough ==
    n = 20 =>
        /\ Len(rets) <= 2
        /\ Len(rets) >= 1 => rets[1] = 9
        /\ Len(rets) >= 2 => rets[2] = 2
        /\ pc = "mark" => p \in {2, 3} /\ p = i /\ Len(rets) = p - 2
        /\ pc = "returned" /\ p = 2 => NewlyMarked = {4, 6, 8, 10, 12, 14, 16, 18, 20}
        /\ pc = "returned" /\ p = 3 => NewlyMarked = {9, 15}
        /\ pc = "loop" /\ i = 4 => isprime[4] = 0
        /\ pc = "loop" /\ i = 5 =>
              /\ {k \in 2 .. n : isprime[k] # 0} = {2, 3, 5, 7, 11, 13, 17, 19}
              /\ nprimes = 8
        /\ pc = "loop" => i <= 5
        /\ pc = "done" => i = 5 /\ nprimes = 8 /\ rets = <<9, 2>>

C13_Witness == n = 20 /\ W = 3 /\ pc = "done" /\ nprimes = 8 /\ rets = <<9, 2>>

(* -------------------------------- C17 --------------------------------- *)
\* C17: for 2 <= k <= n a clear flag means k is composite, in every state;
\* when the main loop has ended a flag is set exactly for the primes.
C17_FlagsArePrimes ==
    /\ \A k \in (DOMAIN isprime) \cap (2 .. n) : isprime[k] = 0 => ~IsPrimeNum(k)
    /\ pc = "loop" /\ i * i > n =>
          \A k \in 2 .. n : (isprime[k] = 1) <=> IsPrimeNum(k)

C17_Witness ==
    /\ pc = "loop"
    /\ i * i > n
    /\ n = 26
    /\ W = 3
    /\ {k \in 2 .. n : isprime[k] = 1} = {2, 3, 5, 7, 11, 13, 17, 19, 23}

(* -------------------------------- C14 --------------------------------- *)
\* C14: under fair scheduling the computation terminates: once the buffer
\* is allocated main reaches its end, every call of mark returns, and the
\* main loop stops at the first i with i*i > n.
C14_Terminates ==
    /\ (pc = "init") ~> (pc = "done")
    /\ (pc = "mark") ~> (pc = "returned")
    /\ [](pc = "done" => i * i > n /\ (i = 2 \/ (i - 1) * (i - 1) <= n))
    /\ [](pc = "mark" => p >= 2)

C14_Witness == pc = "done" /\ n = 26 /\ W = 3 /\ i = 6 /\ Len(rets) = 3

(* -------------------------------- C18 --------------------------------- *)
\* the indices thread id of the team works on
DotBlock(id) == DotStart(dot_n, id, dot_team) .. (DotEnd(dot_n, id, dot_team) - 1)

RECURSIVE DotProduct(_)
\* the dot product of v1[0..m-1] and v2[0..m-1]
DotProduct(m) == IF m = 0 THEN 0 ELSE DotProduct(m - 1) + V1(m - 1) * V2(m - 1)

\* C18: for every n and every thread-pool size the blocks of the threads
\* cover 0..n-1 exactly once, and the sum the master ends with is the dot
\* product of v1 and v2, that is 0 if n % 3 = 0 and 36 otherwise.
C18_DotResult ==
    /\ UNION {DotBlock(id) : id \in 0 .. (dot_team - 1)} = 0 .. (dot_n - 1)
    /\ \A a, b \in 0 .. (dot_team - 1) : a # b => DotBlock(a) \cap DotBlock(b) = {}
    /\ dot_pc \in {"test_ok", "test_failed"} =>
          /\ dot_result = DotProduct(dot_n)
          /\ dot_result = DotExpect(dot_n)
          /\ dot_pc = "test_ok"

(* -------------------------------- C19 --------------------------------- *)
\* C19: after mergesort(v, n) has returned, v is sorted ascending and is a
\* permutation of its input: v[k] = k for every k, and check() yields 1.
C19_Sorted ==
    /\ ms_pc \in {"check", "done"} =>
          /\ \A k \in 0 .. (ms_n - 2) : ms_v[k] <= ms_v[k + 1]
          /\ \A val \in 0 .. (ms_n - 1) :
                Cardinality({k \in 0 .. (ms_n - 1) : ms_v[k] = val})
                    = Cardinality({k \in 0 .. (ms_n - 1) : ms_in[k] = val})
          /\ \A k \in 0 .. (ms_n - 1) : ms_v[k] = k
    /\ ms_pc = "done" => ms_ok = 1

C19_Witness ==
    /\ ms_pc = "done"
    /\ ms_ok = 1
    /\ ms_n = 130
    /\ ms_threads = 3
    /\ ms_in[0] = 65
    /\ ms_in[1] = 68
    /\ Cardinality(DOMAIN ms_tasks) = 7

(* -------------------------------- C20 --------------------------------- *)
\* C20: for every array length and every number of processes, the sum s
\* accumulated by the master equals the sum of all the elements of
\* master_array and equals expected, and the program prints Test OK.
C20_SumAll ==
    sum_pc[0] \in {"test_ok", "test_failed"} =>
        /\ sum_s = Sum(master_array, sum_n)
        /\ sum_s = expected
        /\ sum_pc[0] = "test_ok"

(* -------------------------------- C21 --------------------------------- *)
\* the positions of KEY in v[]
KeyPositions == {k \in DOMAIN lk_v : lk_v[k] = KEY}

\* C21: when n is a multiple of comm_sz, once MPI_Gatherv has completed at
\* rank 0, result[] holds exactly the global positions of KEY in v[], each
\* once and in ascending order, and nf is the number of occurrences.
C21_Lookup ==
    lk_pc # << >> /\ lk_pc[0] \in {"print", "end"} /\ lk_n % lk_sz = 0 =>
        /\ lk_nf = Cardinality(KeyPositions)
        /\ DOMAIN result = 0 .. (lk_nf - 1)
        /\ {result[k] : k \in DOMAIN result} = KeyPositions
        /\ \A a, b \in DOMAIN result : a < b => result[a] < result[b]

C21_Witness ==
    /\ lk_pc # << >>
    /\ lk_pc[0] = "end"
    /\ lk_n = 6
    /\ lk_sz = 3
    /\ lk_v = [k \in 0 .. 5 |-> IF k \in {1, 4, 5} THEN KEY ELSE 7]
    /\ lk_nf = 3
    /\ result = [k \in 0 .. 2 |-> IF k = 0 THEN 1 ELSE k + 3]

(* -------------------------------- C22 --------------------------------- *)
\* the number of elements in the sub-range of thread id
BlockLen(id) == SubTo(from, to, id, W) - SubFrom(from, to, id, W)

\* C22, as stated: no thread's sub-range is longer than the sub-range of a
\* thread with a smaller id.
C22_EarlierLonger ==
    pc = "mark" /\ from <= to =>
        \A a, b \in Threads : a < b => BlockLen(b) <= BlockLen(a)

\* C22, amended: every sub-range has (to-from)/W elements, rounded down or
\* up; exactly (to-from) % W of them are rounded up; the first one is
\* rounded down and the last one is rounded up when there is a remainder
\* (the remainder goes to later sub-ranges, not to the earlier ones).
C22_Balanced ==
    pc = "mark" /\ from <= to =>
        /\ \A id \in Threads :
              BlockLen(id) \in {CDiv(to - from, W), CDiv(to - from, W) + 1}
        /\ Cardinality({id \in Threads : BlockLen(id) = CDiv(to - from, W) + 1})
              = (to - from) % W
        /\ BlockLen(0) = CDiv(to - from, W)
        /\ (to - from) % W # 0 => BlockLen(W - 1) = CDiv(to - from, W) + 1
        /\ \A w \in Threads : wpc[w] # "start" => my_to[w] = SubTo(from, to, w, W)

C22_Witness ==
    /\ pc = "mark"
    /\ W = 3
    /\ to - from = 5
    /\ BlockLen(0) = 1 /\ BlockLen(1) = 2 /\ BlockLen(2) = 2
    /\ Joined

(* -------------------------------- C23 --------------------------------- *)
\* C23: the start a thread aligns to is the lowest multiple of p that is
\* >= its subFrom, so the thread visits only multiples of p inside
\* [subFrom, subTo), and when it has finished it has visited all of them.
C23_AlignedStart ==
    pc = "mark" =>
        \A w \in Threads :
            wpc[w] # "start" =>
                /\ SubFrom(from, to, w, W) >= 0
                /\ my_from[w] % p = 0
                /\ my_from[w] >= SubFrom(from, to, w, W)
                /\ my_from[w] - p < SubFrom(from, to, w, W)
                /\ visited[w] \subseteq {k \in Block(w) : k % p = 0}
                /\ wpc[w] = "done" => visited[w] = {k \in Block(w) : k % p = 0}

C23_Witness ==
    /\ pc = "mark"
    /\ p = 3
    /\ \E w \in Threads :
          /\ wpc[w] = "done"
          /\ SubFrom(from, to, w, W) % p # 0
          /\ my_from[w] > SubFrom(from, to, w, W)
          /\ visited[w] # {}

(* -------------------------------- C24 --------------------------------- *)
\* C24: every p that main hands to mark is prime; isprime[i] is read by main
\* only while no thread of an earlier round is running, and at that moment
\* it is set exactly when i is prime.
C24_SeedsArePrime ==
    /\ pc = "mark" => p = i /\ IsPrimeNum(p)
    /\ pc = "loop" =>
          /\ \A w \in Threads : ~Active(w)
          /\ i * i <= n => (isprime[i] # 0 <=> IsPrimeNum(i))

C24_Witness ==
    /\ pc = "mark"
    /\ p = 5
    /\ rets = <<11, 3>>
    /\ isprime[4] = 0
    /\ \E w \in Threads : wpc[w] = "write"

(* -------------------------------- C25 --------------------------------- *)
\* the threads whose aligned start is not below their my_to
EmptyWorkers == {w \in Threads : wpc[w] \notin {"idle", "start"} /\ my_from[w] >= my_to[w]}

\* C25: a thread whose aligned start is >= its my_to, such as every thread
\* with an empty sub-range when W exceeds to-from, accesses no flag, writes
\* none and adds nothing to nmarked; the call stays inside the array and
\* still returns the number of multiples of p in [from, to) that were set.
C25_EmptyWorker ==
    pc \in {"mark", "returned"} =>
        /\ \A w \in EmptyWorkers : visited[w] = {} /\ wpc[w] \in {"loop", "done"}
        /\ \A w \in Threads :
              wpc[w] # "start" /\ SubFrom(from, to, w, W) = SubTo(from, to, w, W)
                  => w \in EmptyWorkers
        /\ nmarked <= Cardinality(UNION {visited[w] : w \in Threads \ EmptyWorkers})
        /\ \A w \in Threads : visited[w] \subseteq DOMAIN isprime
        /\ \A k \in DOMAIN isprime :
              isprime[k] # before[k] => \E w \in Threads \ EmptyWorkers : k \in visited[w]
        /\ pc = "returned" => ret = Cardinality({k \in Multiples : before[k] # 0})

C25_Witness ==
    /\ pc = "returned"
    /\ W = 3
    /\ to - from = 1
    /\ Cardinality(EmptyWorkers) = 2
    /\ \E w \in EmptyWorkers : SubFrom(from, to, w, W) = SubTo(from, to, w, W)
    /\ ret = 1

(* -------------------------------- C26 --------------------------------- *)
\* C26: while mark runs, a step of a thread changes either one flag, at an
\* index of that thread's own sub-range and of no other thread's, or the
\* shared counter nmarked, by exactly one; from, to, p and the variables of
\* main are not written; nprimes changes only while no thread is running.
C26_SharedWrites ==
    [][/\ pc = "mark" /\ pc' = "mark" =>
            /\ isprime' # isprime =>
                  /\ nmarked' = nmarked
                  /\ \E w \in Threads :
                        /\ wpc[w] = "write"
                        /\ x[w] \in Block(w)
                        /\ \A v \in Threads \ {w} : x[w] \notin Block(v)
                        /\ \A k \in DOMAIN isprime : k # x[w] => isprime'[k] = isprime[k]
            /\ nmarked' # nmarked => nmarked' = nmarked + 1
            /\ UNCHANGED <<from, to, p, n, nprimes, i>>
       /\ nprimes' # nprimes => \A w \in Threads : ~Active(w) /\ ~Active(w)'
      ]_vars

C26_Witness ==
    /\ pc = "mark"
    /\ \E a, b \in Threads : a # b /\ wpc[a] = "inc" /\ wpc[b] = "inc"

(* -------------------------------- C27 --------------------------------- *)
\* C27: mark with the shared, atomically incremented counter returns the
\* same total and leaves the same array as mark with per-worker private
\* counts summed after the join, for every array, range, p, team size and
\* interleaving.
C27_CountersEquivalent ==
    pc = "returned" =>
        /\ ret = MarkPrivate(before, from, to, p, W).count
        /\ isprime = MarkPrivate(before, from, to, p, W).flags

C27_Witness ==
    /\ pc = "returned"
    /\ Len(rets) = 1
    /\ W = 3
    /\ p = 1
    /\ ret = 3
    /\ \A w \in Threads : visited[w] # {}
    /\ \E k \in Multiples : before[k] = 0

(* -------------------------------- C28 --------------------------------- *)
\* free(isprime) has been executed
Disposed == isprime = << >> /\ pc \in {"loop", "mark", "returned", "print", "done"}

\* C28, as stated: all n+1 flags are set before the first call of mark, the
\* array is disposed only after nprimes has been read for the result, and
\* no flag is accessed after the disposal.
C28_DisposeAfterRead ==
    /\ pc = "mark" /\ rets = << >> => \A k \in 0 .. n : before[k] = 1
    /\ Disposed => pc = "done"
    /\ Disposed => \A w \in Threads : ~Active(w)

\* C28, amended: all n+1 flags are set before the first call of mark; the
\* array is disposed when the main loop has ended, that is after the last
\* round has been subtracted from nprimes, and before nprimes is read for
\* printing; after the disposal nprimes does not change, no thread runs and
\* no flag is accessed.
C28_Lifetime ==
    /\ [](pc = "mark" /\ rets = << >> => \A k \in 0 .. n : before[k] = 1)
    /\ [](Disposed => /\ pc \in {"print", "done"}
                      /\ i * i > n
                      /\ \A w \in Threads : ~Active(w))
    /\ [][Disposed => nprimes' = nprimes /\ isprime' = isprime /\ pc' = "done"]_vars

C28_Witness ==
    /\ pc = "print"
    /\ Disposed
    /\ n = 26
    /\ W = 3
    /\ nprimes = 9
    /\ Len(rets) = 3

(* -------------------------------- C29 --------------------------------- *)
\* C29: when malloc fails the program aborts at once: past the allocation
\* the array is missing only in the aborted program (or after free), no
\* flag has been written, no round has run, no thread has started, and
\* the aborted program takes no further step (nothing is printed).
C29_AllocFailAborts ==
    /\ [](isprime = << >> /\ pc \notin {"alloc", "print", "done"} => pc = "aborted")
    /\ [](pc = "aborted" => /\ isprime = << >>
                            /\ rets = << >>
                            /\ before = << >>
                            /\ \A w \in Threads : wpc[w] = "idle")
    /\ [][pc = "aborted" => pc' = "aborted" /\ isprime' = isprime /\ rets' = rets]_vars

C29_Witness ==
    /\ pc = "aborted"
    /\ n = 26
    /\ W = 3
    /\ isprime = << >>

(* -------------------------------- C30 --------------------------------- *)
\* C30: every call of mark made by main has 0 <= from = p*p <= to = n+1,
\* the length of the array, and p >= 2; every index at which main or a
\* thread reads or writes a flag lies in 0..n.
C30_CallsInBounds ==
    /\ pc = "mark" =>
          /\ p >= 2
          /\ from = p * p
          /\ 0 <= from /\ from <= to
          /\ to = n + 1
          /\ DOMAIN isprime = 0 .. (to - 1)
          /\ \A w \in Threads :
                /\ visited[w] \subseteq 0 .. n
                /\ wpc[w] \in {"write", "inc"} => x[w] \in 0 .. n
                /\ wpc[w] = "loop" /\ x[w] < my_to[w] => x[w] \in 0 .. n
    /\ pc = "init" /\ i <= n => i \in DOMAIN isprime
    /\ pc = "loop" /\ i * i <= n => i \in DOMAIN isprime /\ i >= 2

C30_Witness ==
    /\ pc = "mark"
    /\ n = 25
    /\ p = 5
    /\ from = 25
    /\ to = 26
    /\ \E w \in Threads : wpc[w] = "write" /\ x[w] = n

(* -------------------------------- C31 --------------------------------- *)
\* C31: whenever main is at its loop test (before the first round, between
\* two rounds, after the last one) nprimes is the number of indices k in
\* 2..n whose flag is still set.
C31_TotalIsFlagCount ==
    pc = "loop" => nprimes = Cardinality({k \in 2 .. n : isprime[k] # 0})

(* -------------------------------- C32 --------------------------------- *)
\* C32: during and after a call mark(isprime, from, to, p) every flag at an
\* index outside [from, to), and every flag at an index of [from, to) that
\* is not a multiple of p, has the value it had at the entry of the call.
C32_Frame ==
    pc \in {"mark", "returned"} =>
        \A k \in DOMAIN isprime : k \notin Multiples => isprime[k] = before[k]

C32_Witness ==
    /\ pc = "returned"
    /\ Len(rets) = 1
    /\ p = 2
    /\ W = 3
    /\ ret >= 1
    /\ \E k \in DOMAIN isprime : k < from /\ k % p = 0 /\ isprime[k] = 1
    /\ \E k \in from .. (to - 1) : k % p # 0 /\ isprime[k] = 1
    /\ \E k \in DOMAIN isprime : k >= to /\ k % p = 0 /\ isprime[k] = 1

(* -------------------------------- C33 --------------------------------- *)
\* C33: every call of mark issued by main returns at least 1: when the call
\* for round p starts, p*p lies in [from, to) and its flag is still set.
C33_NoEmptyRound ==
    /\ \A k \in 1 .. Len(rets) : rets[k] >= 1
    /\ pc = "mark" => /\ p * p \in from .. (to - 1)
                      /\ before[p * p] = 1

C33_Witness ==
    /\ pc = "done"
    /\ n = 25
    /\ W = 2
    /\ Len(rets) = 3
    /\ rets[3] = 1

(* -------------------------------- C34 --------------------------------- *)
\* C34: a negative n given on the command line is turned away by the range
\* check: past the check the program is at its failure exit, with no buffer
\* allocated, no flag initialised and no marking round started.
C34_NegativeRefused ==
    argc = 2 /\ argv1[1] >= LimbBase \div 2 /\ pc \notin {"args", "parse", "range"} =>
        /\ nbits = argv1
        /\ pc = "exit_failure"
        /\ isprime = << >>
        /\ i = 0
        /\ rets = << >>

C34_Witness ==
    /\ pc = "exit_failure"
    /\ argc = 2
    /\ nbits = <<65535, 65535, 65535, 65535>>

(* -------------------------------- C35 --------------------------------- *)
\* C35: once the parallel region of omp-dot has ended, every slot
\* partial_result[k], 0 <= k < omp_get_max_threads(), that the master adds
\* into result has been written by the one thread whose number is k,
\* whatever the size of the team.
C35_SlotsWritten ==
    dot_pc \in {"sum", "test_ok", "test_failed"} =>
        \A k \in 0 .. (dot_max - 1) :
            /\ k \in dot_tdone
            /\ partial_result[k] = Dot(dot_n, k, dot_team)

(* -------------------------------- C36 --------------------------------- *)
\* the indices of v and tmp that a call of mergesort_rec works on
MsRange(t) == ms_tasks[t].i .. ms_tasks[t].j

\* the calls that may touch v or tmp: created or running, not suspended at
\* the taskwait and not returned
MsLive == {t \in DOMAIN ms_tasks : ms_tasks[t].st \in {"ready", "sort", "copy"}}

\* C36: a call of mergesort_rec that has passed its taskwait (it has merged,
\* or has returned) has both child tasks completed, and two calls that are
\* not suspended and not returned work on disjoint indices of v and tmp.
C36_TaskwaitAndDisjoint ==
    /\ \A t \in DOMAIN ms_tasks :
          Append(t, 0) \in DOMAIN ms_tasks /\ ms_tasks[t].st \in {"copy", "done"} =>
              /\ ms_tasks[Append(t, 0)].st = "done"
              /\ ms_tasks[Append(t, 1)].st = "done"
    /\ \A t, u \in MsLive : t # u => MsRange(t) \cap MsRange(u) = {}

C36_Witness ==
    /\ ms_pc = "mergesort"
    /\ ms_n = 128
    /\ ms_threads = 3
    /\ <<1, 1>> \in DOMAIN ms_tasks
    /\ ms_tasks[<<0>>].st = "copy"
    /\ ms_tasks[<<1, 0>>].st = "sort"
    /\ ms_tasks[<<1, 1>>].st = "sort"

(* -------------------------------- C37 --------------------------------- *)
\* C37: a process other than process 0 that has not yet received N by the
\* broadcast has allocated no array with it and has not reached the inside
\* test; one that has not yet received the arrays has not reached the
\* inside test either.
C37_BcastBeforeUse ==
    \A q \in CircRanks \ {0} :
        /\ circ_N[q] = Uninit => circ_buf[q] = CircNull
        /\ circ_pc[q] \in {"inside", "reduce", "done"} =>
              circ_N[q] = circ_N[0] /\ circ_ba[q] = << >>

====
